---- MODULE Spec2Model ----
(***************************************************************************)
(* Model of the data-preparation pipeline of the Hanoi tourism map.        *)
(*                                                                         *)
(* Part I  : the resumable batch ingestors                                 *)
(*           import_to_qdrant.py  : import_to_qdrant_with_langchain        *)
(*           import_to_vectordb.py: main (Chroma)                          *)
(* Part II : the food aggregation engine                                   *)
(*           recommendatin_food.py: FoodRecommendationService              *)
(*                                                                         *)
(* A document is identified by its 1-based position in the ordered         *)
(* document list, so documents = <<1, 2, ..., total>>.  The vector store   *)
(* is the sequence of the documents it holds, in insertion order.          *)
(***************************************************************************)
EXTENDS Integers, Sequences, FiniteSets, TLC

\* ------------------------------------------------------------------ bounds
MaxDocs == 12
MaxBatch == 2
MaxResumeDocs == 5
MaxRuns == 3

\* ------------------------------------------------------- program constants
BATCH_SIZE == 10
CHROMA_BATCH_SIZE == 5
MAX_RETRIES == 3
CHROMA_MAX_RETRIES == 3

Variants == {"qdrant", "chroma"}

\* The batch sizes explored: the two configured ones and the small ones.
BatchSizes == (1..MaxBatch) \cup {BATCH_SIZE, CHROMA_BATCH_SIZE}

\* --------------------------------------------------------------- helpers
Min(a, b) == IF a <= b THEN a ELSE b

Max(a, b) == IF a >= b THEN a ELSE b

\* Python's s[lo:hi] for 0 <= lo, 0 <= hi (0-based, hi exclusive, clipped).
Slice(s, lo, hi) == SubSeq(s, lo + 1, Min(hi, Len(s)))

\* Python's s[lo:].
SliceFrom(s, lo) == SubSeq(s, lo + 1, Len(s))

Range(s) == {s[j] : j \in 1..Len(s)}

RECURSIVE Concat(_)
Concat(ss) == IF ss = <<>> THEN <<>> ELSE Head(ss) \o Concat(Tail(ss))

RECURSIVE SumLen(_)
SumLen(ss) == IF ss = <<>> THEN 0 ELSE Len(Head(ss)) + SumLen(Tail(ss))

\* The ordered document list of n documents.
Docs(n) == [j \in 1..n |-> j]

\* A function's return value: None, or an integer.
None == [none |-> TRUE, val |-> 0]

IntVal(n) == [none |-> FALSE, val |-> n]

VARIABLES
    variant,          \* which ingestor runs
    documents,        \* the ordered document list
    batch_size,       \* BATCH_SIZE of the run
    store,            \* the vector store's contents
    pc,               \* "idle" | "for" | "try" | "done"
    existing_count,   \* the resume offset of the current run
    docs_to_process,  \* the work list
    i,                \* the for loop's index
    batch,            \* the current batch
    success,          \* the while loop's flag
    retry_count,      \* the while loop's counter
    success_count,    \* the Qdrant ingestor's counter
    ret,              \* the value the run returned
    logged_stop,      \* the offset logged when the Chroma run stops on a batch
    formed,           \* history: the batches the for loop formed, in order
    status,           \* history: formed[j]'s state: pending|committed|aborted
    passes,           \* history: upsert calls made with the current batch
    max_passes,       \* history: the most upsert calls any batch received
    upsert_calls,     \* history: upsert calls of the run
    sleeps,           \* history: time.sleep calls of the run
    submitted,        \* history: the documents passed to upsert in the run
    start_store,      \* history: the store when the run started
    count_failed,     \* history: a read of the store's count has failed
    initial_count,    \* history: the store's count before the first run
    runs,             \* history: invocations so far
    last_call,        \* history: the latest upsert call of the run
    slept,            \* history: time.sleep was called since that call
    run_limit         \* how many invocations the behaviour explores

ingestVars == <<variant, documents, batch_size, store, pc, existing_count,
                docs_to_process, i, batch, success, retry_count, success_count,
                ret, logged_stop, formed, status, passes, max_passes,
                upsert_calls, sleeps, submitted, start_store, count_failed,
                initial_count, runs, run_limit, last_call, slept>>

VARIABLES
    restaurants,        \* _deduplicate_and_rank's argument (the call on its own)
    unique,             \* its result
    unique_again,       \* the result of the call on that result
    dedup_pc,           \* "off" | "call" | "returned" | "again"
    limit,              \* get_food_recommendations' limit
    outcome,            \* what each provider's fetch produces, by task
    pending,            \* the fetch tasks that have not completed
    completed,          \* history: the fetch tasks in their order of completion
    results,            \* the result slots of asyncio.gather, by task
    all_restaurants,    \* the merged provider results
    unique_restaurants, \* the deduplicated, ranked list
    detailed,           \* the records handed to the detail crawl
    crawled,            \* the positions of detailed whose task has finished
    recommendations,    \* the list get_food_recommendations returns
    food_pc             \* "off" | "fetch" | "enrich" | "returned" | "raised"

foodVars == <<restaurants, unique, unique_again, dedup_pc, limit, outcome,
              pending, completed, results, all_restaurants,
              unique_restaurants, detailed, crawled, recommendations, food_pc>>

VARIABLES
    score_call,        \* which function builds the score
    arg_rating,        \* its rating: <<>> (None) or <<tenths>>
    arg_review_count,  \* its review count
    score_rating,      \* the rating that goes with the score it built
    score_result,      \* the score it built
    score_pc           \* "off" | "call" | "returned"

scoreVars == <<score_call, arg_rating, arg_review_count, score_rating,
               score_result, score_pc>>

VARIABLES
    collector,      \* which collector is called
    search_resp,    \* what the DuckDuckGo request yields
    listing_resp,   \* what the request of a Foody listing page yields
    collect_limit,  \* the collector's limit
    collected,      \* what the collector returned (a list) or raised
    collect_pc      \* "off" | "call" | "returned"

collectVars == <<collector, search_resp, listing_resp, collect_limit,
                 collected, collect_pc>>

VARIABLES
    enricher,       \* "web" (WebCrawler) | "wiki" (WikipediaEnricher)
    pois,           \* enrich_batch's argument
    food_service,   \* WebCrawler.food_service is set
    session,        \* self.session: "none" | "open" | "closed"
    e_i,            \* the position of the entity the loop is at
    e_pc,           \* where enrich_batch is
    web_data,       \* _enrich_single's web_data
    wiki_data,      \* _enrich_single's wiki_data
    issued,         \* history: the lookups issued for the entity, in order
    failed_stages,  \* history: the stages that failed for the entity
    enriched,       \* the list enrich_batch builds
    enrich_ret      \* the list enrich_batch returned

enrichVars == <<enricher, pois, food_service, session, e_i, e_pc, web_data,
                wiki_data, issued, failed_stages, enriched, enrich_ret>>

VARIABLES
    entry,           \* "collect_pois" | "initialize_qdrant_client"
    city,            \* collect_pois' city
    categories,      \* collect_pois' categories
    qdrant_url,      \* QDRANT_URL: "" when the environment has none
    qdrant_api_key,  \* QDRANT_API_KEY: "" when the environment has none
    o_pc,            \* where the call is
    cat_i,           \* the position of the category the loop is at
    server_i,        \* the position of the server _query_overpass is at
    overpass_data,   \* what _query_overpass returned for the category
    all_pois,        \* the list collect_pois builds
    osm_ret,         \* the list collect_pois returned
    clients,         \* history: the QdrantClient objects created
    contacted        \* history: the requests issued, in order

osmVars == <<entry, city, categories, qdrant_url, qdrant_api_key, o_pc, cat_i,
             server_i, overpass_data, all_pois, osm_ret, clients, contacted>>

VARIABLES
    w_variant,        \* the ingestor whose handler runs
    hint,             \* the parts the error text is built from
    error_msg,        \* str(e)
    wait_time,        \* the wait computed, in tenths of a second
    w_pc              \* "off" | "except" | "computed"

waitVars == <<w_variant, hint, error_msg, wait_time, w_pc>>

vars == <<ingestVars, foodVars, scoreVars, collectVars, enrichVars, osmVars,
          waitVars>>

\* The variables of the components an action of one component leaves alone.
nonIngestVars == <<foodVars, scoreVars, collectVars, enrichVars, osmVars, waitVars>>

nonFoodVars == <<ingestVars, scoreVars, collectVars, enrichVars, osmVars, waitVars>>

nonScoreVars == <<ingestVars, foodVars, collectVars, enrichVars, osmVars, waitVars>>

nonCollectVars == <<ingestVars, foodVars, scoreVars, enrichVars, osmVars, waitVars>>

nonEnrichVars == <<ingestVars, foodVars, scoreVars, collectVars, osmVars, waitVars>>

nonOsmVars == <<ingestVars, foodVars, scoreVars, collectVars, enrichVars, waitVars>>

nonWaitVars == <<ingestVars, foodVars, scoreVars, collectVars, enrichVars, osmVars>>

\* What gather returns for one fetch: a list, or the exception it raised.
Fetched(rs) == [is_list |-> TRUE, list |-> rs]

Raised == [is_list |-> FALSE, list |-> <<>>]

\* The food service is not in use.
FoodOff ==
    /\ restaurants = <<>>
    /\ unique = <<>>
    /\ unique_again = <<>>
    /\ dedup_pc = "off"
    /\ limit = 0
    /\ outcome = <<Raised, Raised>>
    /\ pending = {}
    /\ completed = <<>>
    /\ results = <<Raised, Raised>>
    /\ all_restaurants = <<>>
    /\ unique_restaurants = <<>>
    /\ detailed = <<>>
    /\ crawled = {}
    /\ recommendations = <<>>
    /\ food_pc = "off"

\* No score is being built.
ScoreOff ==
    /\ score_call = "none"
    /\ arg_rating = <<>>
    /\ arg_review_count = 0
    /\ score_rating = <<>>
    /\ score_result = [num |-> 0, den |-> 1]
    /\ score_pc = "off"

\* What a request yields: the response's status class and parsed body, or
\* the exception the client raised ("timeout", "transport_error").
Response(kind, body) == [kind |-> kind, body |-> body]

\* No collector is being called.
CollectOff ==
    /\ collector = "none"
    /\ search_resp = Response("timeout", <<>>)
    /\ listing_resp = Response("timeout", <<>>)
    /\ collect_limit = 0
    /\ collected = Fetched(<<>>)
    /\ collect_pc = "off"

\* wiki_data = {}: a dict is the set of its (key, value) pairs.
NoData == {}

\* web_data as _enrich_single starts with it.
EmptyWebData == [articles |-> <<>>, tips |-> <<>>, food_recommendations |-> <<>>]

\* No enricher is running.
EnrichOff ==
    /\ enricher = "none"
    /\ pois = <<>>
    /\ food_service = FALSE
    /\ session = "none"
    /\ e_i = 0
    /\ e_pc = "off"
    /\ web_data = EmptyWebData
    /\ wiki_data = NoData
    /\ issued = <<>>
    /\ failed_stages = {}
    /\ enriched = <<>>
    /\ enrich_ret = <<>>

\* The dict with no key, as _query_overpass returns it when every server
\* failed.
NoResult == {}

\* Neither collect_pois nor initialize_qdrant_client is running.
OsmOff ==
    /\ entry = "none"
    /\ city = ""
    /\ categories = <<>>
    /\ qdrant_url = ""
    /\ qdrant_api_key = ""
    /\ o_pc = "off"
    /\ cat_i = 0
    /\ server_i = 0
    /\ overpass_data = NoResult
    /\ all_pois = <<>>
    /\ osm_ret = <<>>
    /\ clients = 0
    /\ contacted = <<>>

\* No wait is being computed.
WaitOff ==
    /\ w_variant = "qdrant"
    /\ hint = <<>>
    /\ error_msg = <<>>
    /\ wait_time = 0
    /\ w_pc = "off"

\* The components other than the ingestors are not in use.
NonIngestOff ==
    FoodOff /\ ScoreOff /\ CollectOff /\ EnrichOff /\ OsmOff /\ WaitOff


total_docs == Len(documents)

\* ------------------------------------------------- the ingestors' decisions

\* import_to_qdrant.py:226, import_to_vectordb.py:161-164: the early return.
AlreadyComplete(v, k, n) ==
    IF v = "qdrant" THEN k >= n ELSE k > 0 /\ k >= n

\* Mutants of WorkList: the slice forgotten; the slice one document early.
WorkListAll(docs, k) == docs

WorkListOffByOne(docs, k) == IF k > 0 THEN SliceFrom(docs, k - 1) ELSE docs

\* import_to_qdrant.py:231-235, import_to_vectordb.py:161-169: the work list.
WorkList(docs, k) == IF k > 0 THEN SliceFrom(docs, k) ELSE docs

\* Mutant of BatchAt: the slice one document too long.
BatchAtOverlap(work, idx, b) == Slice(work, idx, idx + b + 1)

\* docs_to_process[i : i + BATCH_SIZE]
BatchAt(work, idx, b) == Slice(work, idx, idx + b)

\* Mutant of NextIndex: range() without its step.
NextIndexStepOne(idx, b) == idx + 1

\* The for loop's range(0, len(docs_to_process), BATCH_SIZE): the next index.
NextIndex(idx, b) == idx + b

\* The while loop's condition on the counter.
MaxRetries(v) == IF v = "qdrant" THEN MAX_RETRIES ELSE CHROMA_MAX_RETRIES

\* Mutant of MayRetry: the while loop tests the flag only.
MayRetryAlways(v, rc) == TRUE

\* Mutant of MayRetry: <= for <.
MayRetryOffByOne(v, rc) == rc <= MaxRetries(v)

MayRetry(v, rc) == rc < MaxRetries(v)

\* Mutant of OnExhausted: the run goes on with the for loop.
OnExhaustedContinue(v) == "for"

\* Where the run goes once a batch has used up its retries: the return of
\* import_to_qdrant.py:293, the break of import_to_vectordb.py:204-206.
OnExhausted(v) == "done"

\* Mutant of Credit: BATCH_SIZE for len(batch).
CreditBatchSize(b) == batch_size

\* What a successful upsert adds to the success count.
Credit(b) == Len(b)

\* import_to_qdrant.py:270: the inter-batch sleep is skipped after the last
\* batch; import_to_vectordb.py:189 always sleeps.
SleepsAfterSuccess(v, idx, b, work) ==
    IF v = "qdrant" THEN idx + b < Len(work) ELSE TRUE

\* The store's upsert (QdrantVectorStore.from_documents with
\* force_recreate=False, Chroma.add_documents): a success appends the batch.
StoreAfterUpsert(st, b) == st \o b

\* Mutant of RetryCountForBatch: the counter is carried from batch to batch.
RetryCountCarried(rc) == rc

\* retry_count = 0, in the body of the for loop.
RetryCountForBatch(rc) == 0

\* What an upsert may raise: the provider's rate-limit error, or another one.
ExceptionKinds == {"ResourceExhausted", "ConnectionError"}

\* Mutant of Caught: the handler names the rate-limit error only.
CaughtRateLimitOnly(exc) == exc = "ResourceExhausted"

\* except Exception as e:
Caught(exc) == exc \in ExceptionKinds

\* Mutant of SleepsAfterFailure: the retry follows at once.
SleepsAfterFailureNever(v, rc) == FALSE

\* import_to_qdrant.py:288-290 sleeps when a retry is left;
\* import_to_vectordb.py:202 always sleeps.
SleepsAfterFailure(v, rc) == IF v = "qdrant" THEN MayRetry(v, rc) ELSE TRUE

\* Mutant of ReadCount: a failed read of the count keeps the store's count.
ReadCountIgnoringFailure(st, count_ok) == Len(st)

\* import_to_vectordb.py:152-158: the store's count, or 0 when reading it
\* raises.
ReadCount(st, count_ok) == IF count_ok THEN Len(st) ELSE 0

\* No upsert call was made in the run.
NoCall == [batch |-> <<>>, outcome |-> "none"]

\* An upsert call: the batch passed, and "ok" or the exception raised.
Call(b, result) == [batch |-> b, outcome |-> result]

\* -------------------------------------------------------------------- Init
IngestInit(max_docs, max_runs) ==
    /\ variant \in Variants
    /\ run_limit = max_runs
    /\ \E n \in 0..max_docs :
         /\ documents = Docs(n)
         /\ \E k \in 0..(n + 1) :
              /\ store = Docs(k)
              /\ initial_count = k
              /\ start_store = Docs(k)
    /\ batch_size \in BatchSizes
    /\ pc = "idle"
    /\ existing_count = 0
    /\ docs_to_process = <<>>
    /\ i = 0
    /\ batch = <<>>
    /\ success = FALSE
    /\ retry_count = 0
    /\ success_count = 0
    /\ ret = None
    /\ logged_stop = 0
    /\ formed = <<>>
    /\ status = <<>>
    /\ passes = 0
    /\ max_passes = 0
    /\ upsert_calls = 0
    /\ sleeps = 0
    /\ submitted = {}
    /\ count_failed = FALSE
    /\ runs = 0
    /\ last_call = NoCall
    /\ slept = FALSE
    /\ NonIngestOff

\* ----------------------------------------------------------------- actions

\* A (re-)invocation: read the store's count, take the early return or slice
\* the work list.  The Chroma ingestor reads the count inside try/except and
\* takes 0 when the read fails.
Invoke ==
    /\ pc \in {"idle", "done"}
    /\ runs < run_limit
    /\ \E count_ok \in BOOLEAN :
         /\ (variant = "qdrant") => count_ok
         /\ existing_count' = ReadCount(store, count_ok)
         /\ count_failed' = (count_failed \/ ~count_ok)
    /\ runs' = runs + 1
    /\ start_store' = store
    /\ i' = 0
    /\ batch' = <<>>
    /\ success' = FALSE
    /\ retry_count' = 0
    /\ success_count' = 0
    /\ ret' = None
    /\ logged_stop' = 0
    /\ formed' = <<>>
    /\ status' = <<>>
    /\ passes' = 0
    /\ max_passes' = 0
    /\ upsert_calls' = 0
    /\ sleeps' = 0
    /\ submitted' = {}
    /\ last_call' = NoCall
    /\ slept' = FALSE
    /\ IF AlreadyComplete(variant, existing_count', total_docs)
         THEN /\ pc' = "done"
              /\ docs_to_process' = <<>>
         ELSE /\ pc' = "for"
              /\ docs_to_process' = WorkList(documents, existing_count')
    /\ UNCHANGED <<variant, documents, batch_size, store, initial_count,
                   run_limit>>
    /\ UNCHANGED nonIngestVars

\* The head of the for loop: form the next batch, or fall out of the loop
\* and return (import_to_qdrant.py:295-296, import_to_vectordb.py:208).
ForNext ==
    /\ pc = "for"
    /\ IF i < Len(docs_to_process)
         THEN /\ batch' = BatchAt(docs_to_process, i, batch_size)
              /\ formed' = Append(formed, batch')
              /\ status' = Append(status, "pending")
              /\ success' = FALSE
              /\ retry_count' = RetryCountForBatch(retry_count)
              /\ passes' = 0
              /\ pc' = "try"
              /\ ret' = ret
         ELSE /\ pc' = "done"
              /\ ret' = IF variant = "qdrant" THEN IntVal(success_count) ELSE None
              /\ UNCHANGED <<batch, formed, status, success, retry_count, passes>>
    /\ UNCHANGED <<variant, documents, batch_size, store, existing_count,
                   docs_to_process, i, success_count, logged_stop, max_passes,
                   upsert_calls, sleeps, submitted, start_store, count_failed,
                   initial_count, runs, run_limit, last_call, slept>>
    /\ UNCHANGED nonIngestVars

\* What every upsert call records, whatever its outcome.
CallUpsert ==
    /\ upsert_calls' = upsert_calls + 1
    /\ passes' = passes + 1
    /\ max_passes' = Max(max_passes, passes + 1)
    /\ submitted' = submitted \cup Range(batch)

\* The upsert of the current batch succeeds.
UpsertOk ==
    /\ pc = "try"
    /\ ~success /\ MayRetry(variant, retry_count)
    /\ CallUpsert
    /\ store' = StoreAfterUpsert(store, batch)
    /\ success_count' = IF variant = "qdrant"
                          THEN success_count + Credit(batch)
                          ELSE success_count
    /\ last_call' = Call(batch, "ok")
    /\ slept' = SleepsAfterSuccess(variant, i, batch_size, docs_to_process)
    /\ sleeps' = IF slept' THEN sleeps + 1 ELSE sleeps
    /\ success' = TRUE
    /\ status' = [status EXCEPT ![Len(status)] = "committed"]
    /\ i' = NextIndex(i, batch_size)
    /\ pc' = "for"
    /\ UNCHANGED <<variant, documents, batch_size, existing_count,
                   docs_to_process, batch, retry_count, ret, logged_stop,
                   formed, start_store, count_failed, initial_count, runs, run_limit>>
    /\ UNCHANGED nonIngestVars

\* The upsert of the current batch raises, and the handler catches the
\* exception.  Qdrant: sleep and retry, or return success_count once the
\* counter reaches MAX_RETRIES.  Chroma: sleep, then retry, or leave the
\* while loop and break out of the for loop.  An exception the handler does
\* not catch leaves the run.
UpsertFail ==
    /\ pc = "try"
    /\ ~success /\ MayRetry(variant, retry_count)
    /\ CallUpsert
    /\ \E exc \in ExceptionKinds :
         /\ last_call' = Call(batch, exc)
         /\ IF Caught(exc)
              THEN /\ retry_count' = retry_count + 1
                   /\ slept' = SleepsAfterFailure(variant, retry_count')
                   /\ sleeps' = IF slept' THEN sleeps + 1 ELSE sleeps
                   /\ IF MayRetry(variant, retry_count')
                        THEN /\ pc' = "try"
                             /\ UNCHANGED <<ret, status, logged_stop>>
                        ELSE /\ pc' = OnExhausted(variant)
                             /\ ret' = IF variant = "qdrant"
                                         THEN IntVal(success_count) ELSE None
                             /\ status' = [status EXCEPT ![Len(status)] = "aborted"]
                             /\ logged_stop' = IF variant = "qdrant" THEN logged_stop
                                               ELSE existing_count + i
              ELSE /\ pc' = "raised"
                   /\ slept' = FALSE
                   /\ UNCHANGED <<retry_count, sleeps, ret, status, logged_stop>>
    /\ UNCHANGED <<variant, documents, batch_size, store, existing_count,
                   docs_to_process, i, batch, success, success_count, formed,
                   start_store, count_failed, initial_count, runs, run_limit>>
    /\ UNCHANGED nonIngestVars

\* ======================================================================
\* Part II: FoodRecommendationService (recommendatin_food.py)
\* ======================================================================
\* A name is a sequence of characters.  A rating is <<>> (None) or <<t>>, the
\* rating in tenths (<<85>> is 8.5).  A score is the exact fraction num/den.
\* Every record carries rid, the identity of the dict object: its position
\* in the list it entered the aggregation with.

HoGuomCafe == <<"H", "o", " ", "G", "u", "o", "m", " ", "C", "a", "f", "e">>

hoguomcafe == <<"h", "o", " ", "g", "u", "o", "m", " ", "c", "a", "f", "e">>

PhoPadded == <<" ", "P", "h", "o", " ">>

Pho == <<"P", "h", "o">>

NoRating == <<>>

\* str.lower() on the characters in use.
LowerChar(c) ==
    CASE c = "H" -> "h"
      [] c = "G" -> "g"
      [] c = "C" -> "c"
      [] c = "P" -> "p"
      [] OTHER -> c

Lower(s) == [j \in 1..Len(s) |-> LowerChar(s[j])]

RECURSIVE LStrip(_)
LStrip(s) == IF s # <<>> /\ Head(s) = " " THEN LStrip(Tail(s)) ELSE s

RECURSIVE RStrip(_)
RStrip(s) ==
    IF s # <<>> /\ s[Len(s)] = " " THEN RStrip(SubSeq(s, 1, Len(s) - 1)) ELSE s

\* str.strip()
Strip(s) == RStrip(LStrip(s))

\* restaurant['name'].lower().strip()
NameNormalized(r) == Strip(Lower(r.name))

Frac(n, d) == [num |-> n, den |-> d]

ScoreGE(a, b) == a.num * b.den >= b.num * a.den

ScoreEQ(a, b) == a.num * b.den = b.num * a.den

\* Mutant of CalculateScore: the rating is not weighted by the review
\* count.
CalculateScoreUnweighted(rating, review_count) ==
    IF rating = NoRating THEN Frac(50, 1)
    ELSE LET C == 10
             m == 7
         IN  Frac(10 * C * m + rating[1], C + review_count)

\* Mutant of CalculateScore: the prior is not brought to the scale of 100.
CalculateScorePriorUnscaled(rating, review_count) ==
    IF rating = NoRating THEN Frac(50, 1)
    ELSE LET C == 10
             m == 7
         IN  Frac(C * m + review_count * rating[1], C + review_count)

\* Mutant of CalculateScore: no default, a missing rating counts as 0.
CalculateScoreNoDefault(rating, review_count) ==
    LET C == 10
        m == 7
    IN  Frac(10 * C * m + review_count * (IF rating = NoRating THEN 0 ELSE rating[1]),
             C + review_count)

\* _calculate_score: (C*m + review_count*rating) / (C + review_count), then
\* (score / 10) * 100, with the rating in tenths.
CalculateScore(rating, review_count) ==
    IF rating = NoRating THEN Frac(50, 1)
    ELSE LET C == 10
             m == 7
         IN  Frac(10 * C * m + review_count * rating[1], C + review_count)

\* Mutant of IsDuplicate: a duplicate only when both keys were seen.
IsDuplicateBoth(name_normalized, url, seen_names, seen_urls) ==
    name_normalized \in seen_names /\ url \in seen_urls

\* The test of the dedup loop: is the record a duplicate of one kept so far?
IsDuplicate(name_normalized, url, seen_names, seen_urls) ==
    name_normalized \in seen_names \/ url \in seen_urls

\* The dedup loop of _deduplicate_and_rank, from left to right.
RECURSIVE DedupLoop(_, _, _, _)
DedupLoop(rs, seen_names, seen_urls, kept) ==
    IF rs = <<>> THEN kept
    ELSE LET r == Head(rs)
             name_normalized == NameNormalized(r)
         IN  IF IsDuplicate(name_normalized, r.url, seen_names, seen_urls)
               THEN DedupLoop(Tail(rs), seen_names, seen_urls, kept)
               ELSE DedupLoop(Tail(rs), seen_names \cup {name_normalized},
                              seen_urls \cup {r.url}, Append(kept, r))

\* Mutant of InsertByScore: an unstable sort, a record goes ahead of the
\* records placed before it that have its score.
RECURSIVE InsertByScoreUnstable(_, _)
InsertByScoreUnstable(x, s) ==
    IF s = <<>> THEN <<x>>
    ELSE IF ScoreGE(x.score, Head(s).score)
           THEN <<x>> \o s
           ELSE <<Head(s)>> \o InsertByScoreUnstable(x, Tail(s))

\* Mutant of InsertByScore: the sort without reverse=True, ascending.
RECURSIVE InsertByScoreAscending(_, _)
InsertByScoreAscending(x, s) ==
    IF s = <<>> THEN <<x>>
    ELSE IF ScoreGE(x.score, Head(s).score)
           THEN <<Head(s)>> \o InsertByScoreAscending(x, Tail(s))
           ELSE <<x>> \o s

\* list.sort(key=score, reverse=True) is stable: a record goes behind every
\* record placed before it whose score is not smaller.
RECURSIVE InsertByScore(_, _)
InsertByScore(x, s) ==
    IF s = <<>> THEN <<x>>
    ELSE IF ScoreGE(Head(s).score, x.score)
           THEN <<Head(s)>> \o InsertByScore(x, Tail(s))
           ELSE <<x>> \o s

RECURSIVE SortLoop(_, _)
SortLoop(rs, sorted) ==
    IF rs = <<>> THEN sorted
    ELSE SortLoop(Tail(rs), InsertByScore(Head(rs), sorted))

SortByScoreDesc(rs) == SortLoop(rs, <<>>)

DeduplicateAndRank(rs) == SortByScoreDesc(DedupLoop(rs, {}, {}, <<>>))

\* The records keep their fields and get their identity from their position.
Tagged(rs) == [j \in 1..Len(rs) |-> [rs[j] EXCEPT !.rid = j]]

\* A record as _parse_foody_item builds it (rated, scored by
\* _calculate_score) or as _parse_foody_restaurant builds it (no rating,
\* score 50.0).
FoodyRecord(name, url, rating, review_count) ==
    [name |-> name, url |-> url, source |-> "foody", rating |-> rating,
     review_count |-> review_count,
     score |-> CalculateScore(rating, review_count), rid |-> 0]

\* A record as _fetch_from_search_engines builds it.
SearchRecord(name, url) ==
    [name |-> name, url |-> url, source |-> "pasgo.vn", rating |-> NoRating,
     review_count |-> 0, score |-> Frac(50, 1), rid |-> 0]

\* ------------------------------------------------ the inputs explored
MaxRecs == 3
MaxFoody == 2
MaxSearch == 1
MaxLimit == 2

DedupNames == {HoGuomCafe, hoguomcafe, PhoPadded, Pho}

DedupUrls == {"a", "b", "c"}

Stats == {<<NoRating, 0>>, <<(<<90>>), 10>>}

DedupRecords ==
    {FoodyRecord(n, u, st[1], st[2]) : n \in DedupNames, u \in DedupUrls, st \in Stats}

FetchNames == {HoGuomCafe, Pho}

FetchUrls == {"a", "b"}

FoodyRecords ==
    {FoodyRecord(n, u, st[1], st[2]) : n \in FetchNames, u \in FetchUrls, st \in Stats}

SearchRecords == {SearchRecord(n, u) : n \in FetchNames, u \in FetchUrls}

\* What the detail page can yield: an h1 text (stripped, possibly empty), a
\* rating, a review count.
CrawlNames == {hoguomcafe, <<>>}

CrawlRatings == {<<90>>}

CrawlReviews == {10}

\* The detail pages explored.  A field of a page is <<>> when the page does
\* not have the element, <<v>> when it has it: a page with a name only, a
\* page with a rating and a review count, a page with none of them.
CrawlPages ==
    {[name |-> <<n>>, rating |-> <<>>, review_count |-> <<>>] : n \in CrawlNames}
    \cup {[name |-> <<>>, rating |-> <<r>>, review_count |-> <<c>>] :
             r \in CrawlRatings, c \in CrawlReviews}
    \cup {[name |-> <<>>, rating |-> <<>>, review_count |-> <<>>]}

\* A field after the crawl: the page's value when the page has the element.
FieldAfter(old, found) == IF found = <<>> THEN old ELSE found[1]

ListsUpTo(S, n) == UNION {[1..k -> S] : k \in 0..n}

\* ------------------------------------------------ get_food_recommendations

\* Mutant of ReturnExceptions: gather called without return_exceptions.
ReturnExceptionsOff == FALSE

\* asyncio.gather(*tasks, return_exceptions=True)
ReturnExceptions == TRUE

\* Does awaiting gather raise?  Only without return_exceptions, when a task
\* has raised.
GatherRaises(res) == ~ReturnExceptions /\ \E t \in 1..2 : ~res[t].is_list

\* Mutant of PlaceResult: the result goes to the first free slot, which
\* orders the results by completion.
PlaceResultByCompletion(res, t, done, out) == [res EXCEPT ![done + 1] = out]

\* gather keeps one result slot per awaitable, in the order of the
\* awaitables: task t's result goes to slot t, however many tasks have
\* completed before it.
PlaceResult(res, t, done, out) == [res EXCEPT ![t] = out]

\* all_restaurants: the results in task order, exceptions left out.
Merge(res) ==
    (IF res[1].is_list THEN res[1].list ELSE <<>>)
        \o (IF res[2].is_list THEN res[2].list ELSE <<>>)

\* [r for r in detailed if isinstance(r, dict) and r.get('name')]
RECURSIVE FilterNamed(_)
FilterNamed(rs) ==
    IF rs = <<>> THEN <<>>
    ELSE (IF Head(rs).name # <<>> THEN <<Head(rs)>> ELSE <<>>)
             \o FilterNamed(Tail(rs))

\* What _crawl_foody_detail leaves in the record when the page was fetched.
Crawl(r, name, rating, review_count) ==
    [r EXCEPT !.name = name, !.rating = rating, !.review_count = review_count,
              !.score = CalculateScore(rating, review_count)]

IngestOff ==
    /\ variant = "qdrant"
    /\ run_limit = 0
    /\ documents = <<>>
    /\ store = <<>>
    /\ initial_count = 0
    /\ start_store = <<>>
    /\ batch_size = BATCH_SIZE
    /\ pc = "off"
    /\ existing_count = 0
    /\ docs_to_process = <<>>
    /\ i = 0
    /\ batch = <<>>
    /\ success = FALSE
    /\ retry_count = 0
    /\ success_count = 0
    /\ ret = None
    /\ logged_stop = 0
    /\ formed = <<>>
    /\ status = <<>>
    /\ passes = 0
    /\ max_passes = 0
    /\ upsert_calls = 0
    /\ sleeps = 0
    /\ submitted = {}
    /\ count_failed = FALSE
    /\ runs = 0
    /\ last_call = NoCall
    /\ slept = FALSE

\* The components other than the food service are not in use.
NonFoodOff ==
    IngestOff /\ ScoreOff /\ CollectOff /\ EnrichOff /\ OsmOff /\ WaitOff

\* A call of _deduplicate_and_rank on its own.
InitDedup ==
    /\ NonFoodOff
    /\ restaurants \in {Tagged(rs) : rs \in ListsUpTo(DedupRecords, MaxRecs)}
    /\ unique = <<>>
    /\ unique_again = <<>>
    /\ dedup_pc = "call"
    /\ limit = 0
    /\ outcome = <<Raised, Raised>>
    /\ pending = {}
    /\ completed = <<>>
    /\ results = <<Raised, Raised>>
    /\ all_restaurants = <<>>
    /\ unique_restaurants = <<>>
    /\ detailed = <<>>
    /\ crawled = {}
    /\ recommendations = <<>>
    /\ food_pc = "off"

DedupCall ==
    /\ dedup_pc = "call"
    /\ unique' = DeduplicateAndRank(restaurants)
    /\ dedup_pc' = "returned"
    /\ UNCHANGED <<restaurants, unique_again, limit, outcome, pending, completed,
                   results, all_restaurants,
                   unique_restaurants, detailed, crawled, recommendations,
                   food_pc>>
    /\ UNCHANGED nonFoodVars

\* The same call on the list the first call returned.
DedupAgain ==
    /\ dedup_pc = "returned"
    /\ unique_again' = DeduplicateAndRank(unique)
    /\ dedup_pc' = "again"
    /\ UNCHANGED <<restaurants, unique, limit, outcome, pending, completed,
                   results, all_restaurants,
                   unique_restaurants, detailed, crawled, recommendations,
                   food_pc>>
    /\ UNCHANGED nonFoodVars

\* A call of get_food_recommendations: the two fetches are under way.
InitFood ==
    /\ NonFoodOff
    /\ restaurants = <<>>
    /\ unique = <<>>
    /\ unique_again = <<>>
    /\ dedup_pc = "off"
    /\ limit \in 1..MaxLimit
    /\ outcome \in
         ({Fetched(rs) : rs \in ListsUpTo(FoodyRecords, MaxFoody)} \cup {Raised})
         \X ({Fetched(rs) : rs \in ListsUpTo(SearchRecords, MaxSearch)} \cup {Raised})
    /\ pending = {1, 2}
    /\ completed = <<>>
    /\ results = <<Raised, Raised>>
    /\ all_restaurants = <<>>
    /\ unique_restaurants = <<>>
    /\ detailed = <<>>
    /\ crawled = {}
    /\ recommendations = <<>>
    /\ food_pc = "fetch"

\* The fetch of provider t completes, with a list or with an exception.
FetchCompletes(t) ==
    /\ food_pc = "fetch"
    /\ t \in pending
    /\ results' = PlaceResult(results, t, Len(completed), outcome[t])
    /\ pending' = pending \ {t}
    /\ completed' = Append(completed, t)
    /\ UNCHANGED <<restaurants, unique, unique_again, dedup_pc, limit, outcome,
                   all_restaurants, unique_restaurants, detailed, crawled,
                   recommendations, food_pc>>
    /\ UNCHANGED nonFoodVars

\* gather has returned: merge, deduplicate and rank, and start one detail
\* task for each of the first limit * 2 records.
FetchAndRank ==
    /\ food_pc = "fetch"
    /\ pending = {}
    /\ all_restaurants' =
         IF GatherRaises(results) THEN <<>> ELSE Tagged(Merge(results))
    /\ unique_restaurants' = DeduplicateAndRank(all_restaurants')
    /\ detailed' = Slice(unique_restaurants', 0, limit * 2)
    /\ crawled' = {}
    /\ food_pc' = IF GatherRaises(results) THEN "raised" ELSE "enrich"
    /\ UNCHANGED <<restaurants, unique, unique_again, dedup_pc, limit, outcome,
                   pending, completed, results, recommendations>>
    /\ UNCHANGED nonFoodVars

\* The detail task of a Foody record finishes: the request failed and the
\* record is as it was, or the page was parsed and the record updated in
\* place, each field only when the page has it, and the score recomputed.
CrawlFoodyDetail(j) ==
    /\ food_pc = "enrich"
    /\ j \in (1..Len(detailed)) \ crawled
    /\ detailed[j].source = "foody"
    /\ \/ UNCHANGED detailed
       \/ \E page \in CrawlPages :
            detailed' = [detailed EXCEPT ![j] =
                            Crawl(@, FieldAfter(@.name, page.name),
                                  FieldAfter(@.rating, page.rating),
                                  FieldAfter(@.review_count, page.review_count))]
    /\ crawled' = crawled \cup {j}
    /\ UNCHANGED <<restaurants, unique, unique_again, dedup_pc, limit, outcome,
                   pending, completed, results, all_restaurants,
                   unique_restaurants, recommendations, food_pc>>
    /\ UNCHANGED nonFoodVars

\* The task of a record of another source: _return_as_is.
ReturnAsIs(j) ==
    /\ food_pc = "enrich"
    /\ j \in (1..Len(detailed)) \ crawled
    /\ detailed[j].source # "foody"
    /\ crawled' = crawled \cup {j}
    /\ UNCHANGED <<restaurants, unique, unique_again, dedup_pc, limit, outcome,
                   pending, completed, results, all_restaurants,
                   unique_restaurants, detailed, recommendations, food_pc>>
    /\ UNCHANGED nonFoodVars

\* Every detail task has finished: filter and return the first limit.
ReturnRecommendations ==
    /\ food_pc = "enrich"
    /\ crawled = 1..Len(detailed)
    /\ recommendations' = Slice(FilterNamed(detailed), 0, limit)
    /\ food_pc' = "returned"
    /\ UNCHANGED <<restaurants, unique, unique_again, dedup_pc, limit, outcome,
                   pending, completed, results, all_restaurants,
                   unique_restaurants, detailed, crawled>>
    /\ UNCHANGED nonFoodVars

NextDedup == DedupCall \/ DedupAgain

NextFood ==
    \/ \E t \in 1..2 : FetchCompletes(t)
    \/ FetchAndRank
    \/ \E j \in 1..(MaxLimit * 2) : CrawlFoodyDetail(j)
    \/ \E j \in 1..(MaxLimit * 2) : ReturnAsIs(j)
    \/ ReturnRecommendations

SpecDedup == InitDedup /\ [][NextDedup]_vars

SpecFood == InitFood /\ [][NextFood]_vars

\* ------------------------------------------------ the score of a record
MaxRating == 100
MaxReviews == 12

\* The ratings explored, in tenths: None and 0.0 .. MaxRating / 10.
Ratings == {NoRating} \cup {<<t>> : t \in 0..MaxRating}

\* A record as _parse_foody_restaurant builds it: no rating, score 50.0.
ParseFoodyRestaurant(name, url) ==
    [name |-> name, url |-> url, source |-> "foody", rating |-> NoRating,
     review_count |-> 0, score |-> Frac(50, 1), rid |-> 0]

NonScoreOff ==
    IngestOff /\ FoodOff /\ CollectOff /\ EnrichOff /\ OsmOff /\ WaitOff

\* A score is about to be built: by _calculate_score from its arguments, by
\* _parse_foody_item from the rating and review count of a listing item, or
\* by one of the two builders that take neither from the page.
InitScore ==
    /\ NonScoreOff
    /\ score_call \in {"_calculate_score", "_parse_foody_item",
                       "_parse_foody_restaurant", "_fetch_from_search_engines"}
    /\ arg_rating \in Ratings
    /\ arg_review_count \in 0..MaxReviews
    /\ score_call \in {"_parse_foody_restaurant", "_fetch_from_search_engines"}
          => arg_rating = NoRating /\ arg_review_count = 0
    /\ score_rating = <<>>
    /\ score_result = Frac(0, 1)
    /\ score_pc = "call"

CallCalculateScore ==
    /\ score_pc = "call"
    /\ score_call = "_calculate_score"
    /\ score_result' = CalculateScore(arg_rating, arg_review_count)
    /\ score_rating' = arg_rating
    /\ score_pc' = "returned"
    /\ UNCHANGED <<score_call, arg_rating, arg_review_count>>
    /\ UNCHANGED nonScoreVars

CallParseFoodyItem ==
    /\ score_pc = "call"
    /\ score_call = "_parse_foody_item"
    /\ LET r == FoodyRecord(Pho, "a", arg_rating, arg_review_count)
       IN  /\ score_result' = r.score
           /\ score_rating' = r.rating
    /\ score_pc' = "returned"
    /\ UNCHANGED <<score_call, arg_rating, arg_review_count>>
    /\ UNCHANGED nonScoreVars

CallParseFoodyRestaurant ==
    /\ score_pc = "call"
    /\ score_call = "_parse_foody_restaurant"
    /\ LET r == ParseFoodyRestaurant(Pho, "a")
       IN  /\ score_result' = r.score
           /\ score_rating' = r.rating
    /\ score_pc' = "returned"
    /\ UNCHANGED <<score_call, arg_rating, arg_review_count>>
    /\ UNCHANGED nonScoreVars

BuildSearchRecord ==
    /\ score_pc = "call"
    /\ score_call = "_fetch_from_search_engines"
    /\ LET r == SearchRecord(Pho, "a")
       IN  /\ score_result' = r.score
           /\ score_rating' = r.rating
    /\ score_pc' = "returned"
    /\ UNCHANGED <<score_call, arg_rating, arg_review_count>>
    /\ UNCHANGED nonScoreVars

NextScore ==
    \/ CallCalculateScore
    \/ CallParseFoodyItem
    \/ CallParseFoodyRestaurant
    \/ BuildSearchRecord

SpecScore == InitScore /\ [][NextScore]_vars

\* ------------------------------------------------ the collectors
MaxHits == 2
MaxItems == 1

\* The client raises on these; on the others it returns a response.
ClientErrors == {"timeout", "transport_error"}

\* The status classes of a response: 2xx, or not.
StatusClasses == {"ok", "non_2xx"}

\* The search hits explored, by the kind of page the URL names: a Foody
\* article (skipped), a Foody listing page, a Foody restaurant page, a page
\* of a trusted domain, a page of another site.
PageKinds == {"article", "listing", "restaurant", "trusted", "other"}

SearchHits == {[name |-> Pho, url |-> "a", page |-> k] : k \in PageKinds}

\* The items of a listing page, as _parse_foody_item builds them.
ListingItems == {FoodyRecord(HoGuomCafe, "b", st[1], st[2]) : st \in Stats}

Responses(bodies) ==
    {Response(k, <<>>) : k \in ClientErrors}
    \cup {Response(k, b) : k \in StatusClasses, b \in bodies}

\* except Exception: ... return []
ExceptReturnsEmpty(r) == IF r.is_list THEN r ELSE Fetched(<<>>)

\* client.get(url): raises on a timeout or a transport error.
ClientGet(resp) ==
    IF resp.kind \in ClientErrors THEN Raised ELSE Fetched(resp.body)

\* client.get(url) followed by response.raise_for_status().
ClientGetChecked(resp) ==
    IF resp.kind = "ok" THEN Fetched(resp.body) ELSE Raised

\* _search_duckduckgo: the body is parsed whatever the status.
SearchDuckDuckGo(resp) ==
    ExceptReturnsEmpty(
        LET got == ClientGet(resp)
        IN  IF got.is_list THEN Fetched(Slice(got.list, 0, 10)) ELSE Raised)

\* _crawl_foody_listing
CrawlFoodyListing(resp, lim) ==
    ExceptReturnsEmpty(
        LET got == ClientGetChecked(resp)
        IN  IF got.is_list THEN Fetched(Slice(got.list, 0, lim)) ELSE Raised)

\* The loop of _fetch_from_foody over the hits.
RECURSIVE FoodyLoop(_, _, _)
FoodyLoop(hits, lresp, lim) ==
    IF hits = <<>> THEN <<>>
    ELSE LET h == Head(hits)
             rest == FoodyLoop(Tail(hits), lresp, lim)
         IN  CASE h.page = "article" -> rest
               [] h.page = "listing" -> CrawlFoodyListing(lresp, lim).list \o rest
               [] OTHER -> <<ParseFoodyRestaurant(h.name, h.url)>> \o rest

\* _fetch_from_foody
FetchFromFoody(sresp, lresp, lim) ==
    ExceptReturnsEmpty(
        Fetched(FoodyLoop(Slice(SearchDuckDuckGo(sresp).list, 0, 5), lresp, lim)))

\* The loop of _fetch_from_search_engines over the hits.
RECURSIVE TrustedLoop(_)
TrustedLoop(hits) ==
    IF hits = <<>> THEN <<>>
    ELSE (IF Head(hits).page = "trusted"
            THEN <<SearchRecord(Head(hits).name, Head(hits).url)>>
            ELSE <<>>) \o TrustedLoop(Tail(hits))

\* _fetch_from_search_engines
FetchFromSearchEngines(sresp) ==
    ExceptReturnsEmpty(
        Fetched(TrustedLoop(Slice(SearchDuckDuckGo(sresp).list, 0, 3))))

NonCollectOff ==
    IngestOff /\ FoodOff /\ ScoreOff /\ EnrichOff /\ OsmOff /\ WaitOff

\* A collector is about to be called; the remote side answers as drawn.
InitCollect ==
    /\ NonCollectOff
    /\ collector \in {"_search_duckduckgo", "_crawl_foody_listing",
                      "_fetch_from_foody", "_fetch_from_search_engines"}
    /\ search_resp \in Responses(ListsUpTo(SearchHits, MaxHits))
    /\ listing_resp \in Responses(ListsUpTo(ListingItems, MaxItems))
    /\ collect_limit \in 1..MaxLimit
    /\ collector \in {"_search_duckduckgo", "_fetch_from_search_engines"}
          => listing_resp = Response("timeout", <<>>) /\ collect_limit = 1
    /\ collector = "_crawl_foody_listing" => search_resp = Response("timeout", <<>>)
    /\ collected = Fetched(<<>>)
    /\ collect_pc = "call"

CallSearchDuckDuckGo ==
    /\ collect_pc = "call"
    /\ collector = "_search_duckduckgo"
    /\ collected' = SearchDuckDuckGo(search_resp)
    /\ collect_pc' = "returned"
    /\ UNCHANGED <<collector, search_resp, listing_resp, collect_limit>>
    /\ UNCHANGED nonCollectVars

CallCrawlFoodyListing ==
    /\ collect_pc = "call"
    /\ collector = "_crawl_foody_listing"
    /\ collected' = CrawlFoodyListing(listing_resp, collect_limit)
    /\ collect_pc' = "returned"
    /\ UNCHANGED <<collector, search_resp, listing_resp, collect_limit>>
    /\ UNCHANGED nonCollectVars

CallFetchFromFoody ==
    /\ collect_pc = "call"
    /\ collector = "_fetch_from_foody"
    /\ collected' = FetchFromFoody(search_resp, listing_resp, collect_limit)
    /\ collect_pc' = "returned"
    /\ UNCHANGED <<collector, search_resp, listing_resp, collect_limit>>
    /\ UNCHANGED nonCollectVars

CallFetchFromSearchEngines ==
    /\ collect_pc = "call"
    /\ collector = "_fetch_from_search_engines"
    /\ collected' = FetchFromSearchEngines(search_resp)
    /\ collect_pc' = "returned"
    /\ UNCHANGED <<collector, search_resp, listing_resp, collect_limit>>
    /\ UNCHANGED nonCollectVars

NextCollect ==
    \/ CallSearchDuckDuckGo
    \/ CallCrawlFoodyListing
    \/ CallFetchFromFoody
    \/ CallFetchFromSearchEngines

SpecCollect == InitCollect /\ [][NextCollect]_vars

\* ------------------------------------------------ the enrichers
MaxPois == 2

\* The entities explored.  named: the dict has the key 'name'; link: the
\* value of basic_info.wikipedia ("" when absent); name_en: the dict has a
\* non-empty 'name_en'.
Poi(named, category, link, name_en) ==
    [id |-> 0, named |-> named, category |-> category, link |-> link,
     name_en |-> name_en]

PoiKinds(which) ==
    IF which = "web"
      THEN {Poi(TRUE, "museum", "", FALSE), Poi(TRUE, "market", "", FALSE),
            Poi(FALSE, "", "", FALSE)}
      ELSE {Poi(TRUE, "", "", TRUE), Poi(TRUE, "", "vi:T", TRUE),
            Poi(TRUE, "", "vi:T", FALSE), Poi(TRUE, "", "T", FALSE),
            Poi(FALSE, "", "", FALSE)}

\* The entities get their identity from their position in the list.
TaggedPois(ps) == [j \in 1..Len(ps) |-> [ps[j] EXCEPT !.id = j]]

\* What the remote side answers to each kind of request.
ArticleResponses == Responses({<<>>, <<"u">>})

TipResponses == Responses({<<>>, <<"t">>})

WikiSearchResponses == Responses({"", "T"})

WikiFetchResponses == Responses({"", "page"})

\* What get_food_recommendations does for the crawler: returns or raises.
FoodOutcomes == {Raised, Fetched(<<>>), Fetched(<<"r">>)}

\* _search_duckduckgo_articles
SearchDuckDuckGoArticles(resp) ==
    IF resp.kind = "ok" THEN Slice(resp.body, 0, 3) ELSE <<>>

\* _extract_tips_from_article
ExtractTipsFromArticle(url, resp) ==
    IF url = "" THEN <<>>
    ELSE IF resp.kind = "ok" THEN Slice(resp.body, 0, 5) ELSE <<>>

\* _generate_category_tips
GenerateCategoryTips(poi) ==
    IF poi.category = "museum" THEN <<"museum tip">> ELSE <<"default tip">>

\* Mutant of FoodRecommendationsOrEmpty: the call is outside any try.
FoodRecommendationsUnguarded(out) == out

\* try: recommendations = await get_food_recommendations(...)
\* except Exception: web_data["food_recommendations"] = []
FoodRecommendationsOrEmpty(out) == IF out.is_list THEN out ELSE Fetched(<<>>)

\* ":" in wiki_link, for the links in use
HasColon(link) == link = "vi:T"

\* _search_wikipedia: the first title, or None (here "").
SearchWikipedia(resp) == IF resp.kind = "ok" THEN resp.body ELSE ""

\* _fetch_wikipedia_data
FetchWikipediaData(resp, lang) ==
    IF resp.kind = "ok" /\ resp.body = "page"
      THEN {<<"title", "T">>, <<"language", lang>>}
      ELSE NoData

\* _search_and_fetch
SearchAndFetch(sresp, fresp, lang) ==
    IF SearchWikipedia(sresp) = "" THEN NoData ELSE FetchWikipediaData(fresp, lang)

\* if not wiki_data:
NeedsNameSearch(data) == data = NoData

\* Mutant of NeedsEnglishSearch: the English search whenever there is an
\* English name.
NeedsEnglishSearchUnconditional(data, poi) == poi.name_en

\* if not wiki_data and poi.get("name_en"):
NeedsEnglishSearch(data, poi) == data = NoData /\ poi.name_en

\* A lookup that was issued, whether its remote call failed, whether it
\* yielded data.
Lookup(step, failed, data) ==
    [step |-> step, failed |-> failed, yielded |-> data # NoData]

\* An entity as it leaves _enrich_single, with the history of its stages.
Enriched(poi, payload, log, failed) ==
    [id |-> poi.id, payload |-> payload, issued |-> log, failed |-> failed]

NonEnrichOff ==
    IngestOff /\ FoodOff /\ ScoreOff /\ CollectOff /\ OsmOff /\ WaitOff

\* await self.session.close()
CloseSession(s) == IF s = "open" THEN "closed" ELSE s

\* Mutant of SessionOnRaise: the session is closed after the loop only, with
\* no finally clause.
SessionOnRaiseLeftOpen(s) == s

\* An exception leaves enrich_batch through its finally clause.
SessionOnRaise(s) == CloseSession(s)

\* enrich_batch of one of the two enrichers is called.
InitEnrich ==
    /\ NonEnrichOff
    /\ enricher \in {"web", "wiki"}
    /\ pois \in {TaggedPois(ps) : ps \in ListsUpTo(PoiKinds(enricher), MaxPois)}
    /\ food_service \in BOOLEAN
    /\ enricher = "wiki" => food_service = FALSE
    /\ session = "none"
    /\ e_i = 0
    /\ e_pc = "start"
    /\ web_data = EmptyWebData
    /\ wiki_data = NoData
    /\ issued = <<>>
    /\ failed_stages = {}
    /\ enriched = <<>>
    /\ enrich_ret = <<>>

\* self.session = aiohttp.ClientSession(...)
OpenSession ==
    /\ e_pc = "start"
    /\ session' = "open"
    /\ e_pc' = "loop"
    /\ UNCHANGED <<enricher, pois, food_service, e_i, web_data, wiki_data,
                   issued, failed_stages, enriched, enrich_ret>>
    /\ UNCHANGED nonEnrichVars

\* The loop takes the next entity: poi['name'] is read for the log line,
\* which raises out of the call, through finally, when the key is missing.
ForPoi ==
    /\ e_pc = "loop"
    /\ e_i < Len(pois)
    /\ e_i' = e_i + 1
    /\ web_data' = EmptyWebData
    /\ wiki_data' = NoData
    /\ issued' = <<>>
    /\ failed_stages' = {}
    /\ IF pois[e_i + 1].named
         THEN /\ e_pc' = IF enricher = "web" THEN "articles" ELSE "link"
              /\ UNCHANGED session
         ELSE /\ e_pc' = "raised"
              /\ session' = SessionOnRaise(session)
    /\ UNCHANGED <<enricher, pois, food_service, enriched, enrich_ret>>
    /\ UNCHANGED nonEnrichVars

\* return enriched, through finally.
ReturnEnriched ==
    /\ e_pc = "loop"
    /\ e_i = Len(pois)
    /\ enrich_ret' = enriched
    /\ session' = CloseSession(session)
    /\ e_pc' = "returned"
    /\ UNCHANGED <<enricher, pois, food_service, e_i, web_data, wiki_data,
                   issued, failed_stages, enriched>>
    /\ UNCHANGED nonEnrichVars

\* WebCrawler._enrich_single: the article search.
SearchArticlesStage ==
    /\ e_pc = "articles"
    /\ \E resp \in ArticleResponses :
         /\ web_data' = [web_data EXCEPT !.articles = SearchDuckDuckGoArticles(resp)]
         /\ failed_stages' =
              failed_stages \cup (IF resp.kind # "ok" THEN {"articles"} ELSE {})
    /\ e_pc' = "tips"
    /\ UNCHANGED <<enricher, pois, food_service, session, e_i, wiki_data,
                   issued, enriched, enrich_ret>>
    /\ UNCHANGED nonEnrichVars

\* The tips of the first article, the category's tips when it has none.
ExtractTipsStage ==
    /\ e_pc = "tips"
    /\ web_data.articles # <<>>
    /\ \E resp \in TipResponses :
         LET extracted == ExtractTipsFromArticle(web_data.articles[1], resp)
         IN  /\ web_data' =
                  [web_data EXCEPT !.tips = IF extracted = <<>>
                                              THEN GenerateCategoryTips(pois[e_i])
                                              ELSE extracted]
             /\ failed_stages' =
                  failed_stages \cup (IF resp.kind # "ok" THEN {"tips"} ELSE {})
    /\ e_pc' = "food"
    /\ UNCHANGED <<enricher, pois, food_service, session, e_i, wiki_data,
                   issued, enriched, enrich_ret>>
    /\ UNCHANGED nonEnrichVars

\* No article: the category's tips.
DefaultTipsStage ==
    /\ e_pc = "tips"
    /\ web_data.articles = <<>>
    /\ web_data' = [web_data EXCEPT !.tips = GenerateCategoryTips(pois[e_i])]
    /\ e_pc' = "food"
    /\ UNCHANGED <<enricher, pois, food_service, session, e_i, wiki_data,
                   issued, failed_stages, enriched, enrich_ret>>
    /\ UNCHANGED nonEnrichVars
\* The food recommendations; then poi["web_data"] = web_data and the entity
\* joins the list.  An exception the try does not catch leaves the call.
FoodStage ==
    /\ e_pc = "food"
    /\ food_service
    /\ \E out \in FoodOutcomes :
         LET got == FoodRecommendationsOrEmpty(out)
             failed == failed_stages \cup (IF out.is_list THEN {} ELSE {"food"})
         IN  IF got.is_list
               THEN /\ web_data' = [web_data EXCEPT !.food_recommendations = got.list]
                    /\ failed_stages' = failed
                    /\ enriched' = Append(enriched,
                                           Enriched(pois[e_i], web_data', issued, failed))
                    /\ e_pc' = "loop"
                    /\ UNCHANGED session
               ELSE /\ e_pc' = "raised"
                    /\ session' = SessionOnRaise(session)
                    /\ UNCHANGED <<web_data, failed_stages, enriched>>
    /\ UNCHANGED <<enricher, pois, food_service, e_i, wiki_data, issued,
                   enrich_ret>>
    /\ UNCHANGED nonEnrichVars

\* No food service (the import failed): the list stays empty.
NoFoodStage ==
    /\ e_pc = "food"
    /\ ~food_service
    /\ enriched' = Append(enriched,
                           Enriched(pois[e_i], web_data, issued, failed_stages))
    /\ e_pc' = "loop"
    /\ UNCHANGED <<enricher, pois, food_service, session, e_i, web_data,
                   wiki_data, issued, failed_stages, enrich_ret>>
    /\ UNCHANGED nonEnrichVars

\* WikipediaEnricher._enrich_single: the link of the structured data.
FetchLinked ==
    /\ e_pc = "link"
    /\ HasColon(pois[e_i].link)
    /\ \E resp \in WikiFetchResponses :
         /\ wiki_data' = FetchWikipediaData(resp, "vi")
         /\ issued' = Append(issued, Lookup("link", resp.kind # "ok", wiki_data'))
    /\ e_pc' = "name_search"
    /\ UNCHANGED <<enricher, pois, food_service, session, e_i, web_data,
                   failed_stages, enriched, enrich_ret>>
    /\ UNCHANGED nonEnrichVars

\* No link, or a link without a colon: nothing is fetched.
SkipLink ==
    /\ e_pc = "link"
    /\ ~HasColon(pois[e_i].link)
    /\ e_pc' = "name_search"
    /\ UNCHANGED <<enricher, pois, food_service, session, e_i, web_data,
                   wiki_data, issued, failed_stages, enriched, enrich_ret>>
    /\ UNCHANGED nonEnrichVars

\* The search by name in the Vietnamese edition.
SearchPrimary ==
    /\ e_pc = "name_search"
    /\ NeedsNameSearch(wiki_data)
    /\ \E sresp \in WikiSearchResponses, fresp \in WikiFetchResponses :
         /\ wiki_data' = SearchAndFetch(sresp, fresp, "vi")
         /\ issued' = Append(issued,
                Lookup("vi", sresp.kind # "ok"
                               \/ (SearchWikipedia(sresp) # "" /\ fresp.kind # "ok"),
                       wiki_data'))
    /\ e_pc' = "english_search"
    /\ UNCHANGED <<enricher, pois, food_service, session, e_i, web_data,
                   failed_stages, enriched, enrich_ret>>
    /\ UNCHANGED nonEnrichVars

\* The link yielded data: no search.
SkipNameSearch ==
    /\ e_pc = "name_search"
    /\ ~NeedsNameSearch(wiki_data)
    /\ e_pc' = "store"
    /\ UNCHANGED <<enricher, pois, food_service, session, e_i, web_data,
                   wiki_data, issued, failed_stages, enriched, enrich_ret>>
    /\ UNCHANGED nonEnrichVars

\* The search by the English name in the English edition.
SearchSecondary ==
    /\ e_pc = "english_search"
    /\ NeedsEnglishSearch(wiki_data, pois[e_i])
    /\ \E sresp \in WikiSearchResponses, fresp \in WikiFetchResponses :
         /\ wiki_data' = SearchAndFetch(sresp, fresp, "en")
         /\ issued' = Append(issued,
                Lookup("en", sresp.kind # "ok"
                               \/ (SearchWikipedia(sresp) # "" /\ fresp.kind # "ok"),
                       wiki_data'))
    /\ e_pc' = "store"
    /\ UNCHANGED <<enricher, pois, food_service, session, e_i, web_data,
                   failed_stages, enriched, enrich_ret>>
    /\ UNCHANGED nonEnrichVars

\* The Vietnamese search yielded data, or there is no English name.
SkipSecondary ==
    /\ e_pc = "english_search"
    /\ ~NeedsEnglishSearch(wiki_data, pois[e_i])
    /\ e_pc' = "store"
    /\ UNCHANGED <<enricher, pois, food_service, session, e_i, web_data,
                   wiki_data, issued, failed_stages, enriched, enrich_ret>>
    /\ UNCHANGED nonEnrichVars

\* poi["wikipedia_data"] = wiki_data, and the entity joins the list.
StoreWikipediaData ==
    /\ e_pc = "store"
    /\ enriched' = Append(enriched,
                           Enriched(pois[e_i], wiki_data, issued, failed_stages))
    /\ e_pc' = "loop"
    /\ UNCHANGED <<enricher, pois, food_service, session, e_i, web_data,
                   wiki_data, issued, failed_stages, enrich_ret>>
    /\ UNCHANGED nonEnrichVars

NextEnrich ==
    \/ OpenSession
    \/ ForPoi
    \/ ReturnEnriched
    \/ SearchArticlesStage
    \/ ExtractTipsStage
    \/ DefaultTipsStage
    \/ FoodStage
    \/ NoFoodStage
    \/ FetchLinked
    \/ SkipLink
    \/ SearchPrimary
    \/ SkipNameSearch
    \/ SearchSecondary
    \/ SkipSecondary
    \/ StoreWikipediaData

SpecEnrich == InitEnrich /\ [][NextEnrich]_vars

\* ------------------------------------------------ the OSM collector,
\* and the Qdrant client
MaxCategories == 2

\* OVERPASS_SERVERS
OVERPASS_SERVERS == <<"overpass.kumi.systems", "overpass-api.de", "lz4.overpass-api.de">>

\* CITY_BOUNDS.get(city) is a non-empty dict.
HasBounds(c) == c = "Hanoi"

Cities == {"Hanoi", "Hue"}

Categories == {"historic", "museum"}

\* A JSON body with the key "elements".
Elements(ids) == {<<"elements", ids>>}

\* What a server does with the request: the post raises ("exception"), the
\* status is not 200, the status is 200 and response.json() raises
\* ("bad_json"), or the status is 200 and the body is JSON ("ok").
ServerOutcome(kind, body) == [kind |-> kind, body |-> body]

ServerOutcomes ==
    {ServerOutcome(k, NoResult) : k \in {"exception", "non_200", "bad_json"}}
    \cup {ServerOutcome("ok", b) :
            b \in {Elements(<<1>>), Elements(<<1, 2>>), {<<"remark", "runtime error">>}}}

\* Mutant of Succeeded: any response ends the loop, whatever its status.
SucceededAnyStatus(out) == out.kind \in {"ok", "non_200"}

\* if response.status == 200: return await response.json()
Succeeded(out) == out.kind = "ok"

\* A request that was issued, and what came back.
Contact(server, out) == [server |-> server, kind |-> out.kind, body |-> out.body]

HasElements(d) == \E p \in d : p[1] = "elements"

ElementsOf(d) == (CHOOSE p \in d : p[1] = "elements")[2]

\* _parse_element, for the fields in use.
ParseElement(el, category) == [osm_id |-> el, category |-> category]

\* _fetch_category, from what _query_overpass returned.
FetchCategory(d, category) ==
    IF d = NoResult \/ ~HasElements(d) THEN <<>>
    ELSE [j \in 1..Len(ElementsOf(d)) |-> ParseElement(ElementsOf(d)[j], category)]

\* {poi["osm_id"]: poi for poi in all_pois}.values(): a key keeps the place
\* of its first record and the value of its last.
RECURSIVE UniqueByOsmId(_, _)
UniqueByOsmId(ps, acc) ==
    IF ps = <<>> THEN acc
    ELSE LET poi == Head(ps)
             at == {j \in 1..Len(acc) : acc[j].osm_id = poi.osm_id}
         IN  UniqueByOsmId(Tail(ps),
                 IF at = {} THEN Append(acc, poi)
                 ELSE [j \in 1..Len(acc) |-> IF j \in at THEN poi ELSE acc[j]])

\* Mutant of ConfigMissing: only the URL is required.
ConfigMissingUrlOnly(url, key) == url = ""

\* if not QDRANT_URL or not QDRANT_API_KEY:
ConfigMissing(url, key) == url = "" \/ key = ""

NonOsmOff ==
    IngestOff /\ FoodOff /\ ScoreOff /\ CollectOff /\ EnrichOff /\ WaitOff

\* collect_pois or initialize_qdrant_client is called.
InitOsm ==
    /\ NonOsmOff
    /\ entry \in {"collect_pois", "initialize_qdrant_client"}
    /\ city \in Cities \cup {""}
    /\ categories \in ListsUpTo(Categories, MaxCategories)
    /\ qdrant_url \in {"", "https://qdrant"}
    /\ qdrant_api_key \in {"", "key"}
    /\ entry = "collect_pois" => city # "" /\ qdrant_url = "" /\ qdrant_api_key = ""
    /\ entry = "initialize_qdrant_client" => city = "" /\ categories = <<>>
    /\ o_pc = "call"
    /\ cat_i = 0
    /\ server_i = 0
    /\ overpass_data = NoResult
    /\ all_pois = <<>>
    /\ osm_ret = <<>>
    /\ clients = 0
    /\ contacted = <<>>

\* collect_pois: the bounds of the city, or ValueError.
CollectPois ==
    /\ o_pc = "call"
    /\ entry = "collect_pois"
    /\ o_pc' = IF HasBounds(city) THEN "category" ELSE "raised"
    /\ UNCHANGED <<entry, city, categories, qdrant_url, qdrant_api_key, cat_i,
                   server_i, overpass_data, all_pois, osm_ret, clients, contacted>>
    /\ UNCHANGED nonOsmVars

\* The loop takes the next category: _fetch_category calls _query_overpass,
\* which starts with the first server.
ForCategory ==
    /\ o_pc = "category"
    /\ cat_i < Len(categories)
    /\ cat_i' = cat_i + 1
    /\ server_i' = 1
    /\ contacted' = <<>>
    /\ o_pc' = "server"
    /\ UNCHANGED <<entry, city, categories, qdrant_url, qdrant_api_key,
                   overpass_data, all_pois, osm_ret, clients>>
    /\ UNCHANGED nonOsmVars

\* _query_overpass posts the query to the server it is at: it returns the
\* JSON body of a 200 response, and goes to the next server otherwise.
ContactServer ==
    /\ o_pc = "server"
    /\ server_i <= Len(OVERPASS_SERVERS)
    /\ \E out \in ServerOutcomes :
         /\ contacted' = Append(contacted, Contact(OVERPASS_SERVERS[server_i], out))
         /\ IF Succeeded(out)
              THEN /\ overpass_data' = out.body
                   /\ o_pc' = "fetched"
                   /\ UNCHANGED server_i
              ELSE /\ server_i' = server_i + 1
                   /\ UNCHANGED <<overpass_data, o_pc>>
    /\ UNCHANGED <<entry, city, categories, qdrant_url, qdrant_api_key, cat_i,
                   all_pois, osm_ret, clients>>
    /\ UNCHANGED nonOsmVars

\* The list of servers is exhausted: return {}.
AllServersFailed ==
    /\ o_pc = "server"
    /\ server_i > Len(OVERPASS_SERVERS)
    /\ overpass_data' = NoResult
    /\ o_pc' = "fetched"
    /\ UNCHANGED <<entry, city, categories, qdrant_url, qdrant_api_key, cat_i,
                   server_i, all_pois, osm_ret, clients, contacted>>
    /\ UNCHANGED nonOsmVars

\* _fetch_category returns the parsed elements; collect_pois extends its list.
ExtendPois ==
    /\ o_pc = "fetched"
    /\ all_pois' = all_pois \o FetchCategory(overpass_data, categories[cat_i])
    /\ o_pc' = "category"
    /\ UNCHANGED <<entry, city, categories, qdrant_url, qdrant_api_key, cat_i,
                   server_i, overpass_data, osm_ret, clients, contacted>>
    /\ UNCHANGED nonOsmVars

\* The categories are done: return the records, one for each OSM id.
ReturnPois ==
    /\ o_pc = "category"
    /\ cat_i = Len(categories)
    /\ osm_ret' = UniqueByOsmId(all_pois, <<>>)
    /\ o_pc' = "returned"
    /\ UNCHANGED <<entry, city, categories, qdrant_url, qdrant_api_key, cat_i,
                   server_i, overpass_data, all_pois, clients, contacted>>
    /\ UNCHANGED nonOsmVars

\* initialize_qdrant_client: ValueError, or the client is created.
InitializeQdrantClient ==
    /\ o_pc = "call"
    /\ entry = "initialize_qdrant_client"
    /\ IF ConfigMissing(qdrant_url, qdrant_api_key)
         THEN /\ o_pc' = "raised"
              /\ UNCHANGED clients
         ELSE /\ o_pc' = "test"
              /\ clients' = clients + 1
    /\ UNCHANGED <<entry, city, categories, qdrant_url, qdrant_api_key, cat_i,
                   server_i, overpass_data, all_pois, osm_ret, contacted>>
    /\ UNCHANGED nonOsmVars

\* client.get_collections(): the client is returned, or the exception is
\* raised again.
TestConnection ==
    /\ o_pc = "test"
    /\ \E out \in {ServerOutcome("ok", NoResult), ServerOutcome("exception", NoResult)} :
         /\ contacted' = Append(contacted, Contact(qdrant_url, out))
         /\ o_pc' = IF out.kind = "ok" THEN "returned" ELSE "raised"
    /\ UNCHANGED <<entry, city, categories, qdrant_url, qdrant_api_key, cat_i,
                   server_i, overpass_data, all_pois, osm_ret, clients>>
    /\ UNCHANGED nonOsmVars

NextOsm ==
    \/ CollectPois
    \/ ForCategory
    \/ ContactServer
    \/ AllServersFailed
    \/ ExtendPois
    \/ ReturnPois
    \/ InitializeQdrantClient
    \/ TestConnection

SpecOsm == InitOsm /\ [][NextOsm]_vars

\* ------------------------------------------------ the wait after a failure
MaxHintSeconds == 12

DigitChars == <<"0", "1", "2", "3", "4", "5", "6", "7", "8", "9">>

IsDigit(c) == \E d \in 1..10 : DigitChars[d] = c

DigitValue(c) == (CHOOSE d \in 1..10 : DigitChars[d] = c) - 1

\* str(n) for n >= 0.
RECURSIVE ToDigits(_)
ToDigits(n) ==
    IF n < 10 THEN <<DigitChars[n + 1]>>
    ELSE ToDigits(n \div 10) \o <<DigitChars[(n % 10) + 1]>>

\* int(ds) for a sequence of digits.
RECURSIVE DigitsValue(_)
DigitsValue(ds) ==
    IF ds = <<>> THEN 0
    ELSE 10 * DigitsValue(SubSeq(ds, 1, Len(ds) - 1)) + DigitValue(ds[Len(ds)])

\* The literal text of the pattern before its group.
RetryIn == <<"r", "e", "t", "r", "y", " ", "i", "n", " ">>

RetryInCapital == <<"R", "e", "t", "r", "y", " ", "i", "n", " ">>

RetryAfter == <<"r", "e", "t", "r", "y", " ", "a", "f", "t", "e", "r", " ">>

QuotaExceeded == <<"4", "2", "9", " ", "q", "u", "o", "t", "a", ",", " ">>

\* s has the text lit at position p.
HasAt(s, p, lit) ==
    /\ p + Len(lit) - 1 <= Len(s)
    /\ \A j \in 1..Len(lit) : s[p + j - 1] = lit[j]

\* The position after the longest run of digits that starts at p.
RECURSIVE DigitsEnd(_, _)
DigitsEnd(s, p) ==
    IF p <= Len(s) /\ IsDigit(s[p]) THEN DigitsEnd(s, p + 1) ELSE p

\* The pattern r"retry in (\d+\.?\d*)s" matched at position p: where its
\* group starts and where the group ends (exclusive).  The greedy choice is
\* the only one that can match, for a shorter run of digits is followed by a
\* digit or by the point.
GroupAt(s, p) ==
    LET a == p + Len(RetryIn)
        e1 == DigitsEnd(s, a)
        e2 == IF e1 <= Len(s) /\ s[e1] = "." THEN DigitsEnd(s, e1 + 1) ELSE e1
    IN  [from |-> a, to |-> e2, int_to |-> e1]

MatchesAt(s, p) ==
    /\ HasAt(s, p, RetryIn)
    /\ GroupAt(s, p).int_to > GroupAt(s, p).from
    /\ GroupAt(s, p).to <= Len(s)
    /\ s[GroupAt(s, p).to] = "s"

\* re.search: the leftmost position with a match, 0 for None.
Search(s) ==
    LET at == {p \in 1..Len(s) : MatchesAt(s, p)}
    IN  IF at = {} THEN 0 ELSE CHOOSE p \in at : \A q \in at : p <= q

\* float(match.group(1)), in tenths of a second; the texts drawn have at most
\* one digit after the point.
FloatOfGroup(s, g) ==
    LET int_part == DigitsValue(SubSeq(s, g.from, g.int_to - 1))
        frac == SubSeq(s, g.int_to + 1, g.to - 1)
    IN  10 * int_part + (IF frac = <<>> THEN 0 ELSE DigitValue(frac[1]))

\* Mutant of DefaultWait: the Chroma ingestor's default in both.
DefaultWaitChroma(v) == 650

\* wait_time = 10 (import_to_qdrant.py), wait_time = 65 (import_to_vectordb.py),
\* in tenths of a second.
DefaultWait(v) == IF v = "qdrant" THEN 100 ELSE 650

\* Mutant of WaitTime: the hint is taken as it is.
WaitTimeNoMargin(v, msg) ==
    IF Search(msg) = 0 THEN DefaultWait(v)
    ELSE FloatOfGroup(msg, GroupAt(msg, Search(msg)))

\* The wait the handler computes from the error text, in tenths of a second.
WaitTime(v, msg) ==
    IF Search(msg) = 0 THEN DefaultWait(v)
    ELSE FloatOfGroup(msg, GroupAt(msg, Search(msg))) + 50

\* The error texts drawn: an optional prefix, the words before the number,
\* the number (no integer part, or 0..MaxHintSeconds; no point, a point, or
\* a point and a digit) and what follows it.
Hints ==
    [prefix : {<<>>, QuotaExceeded},
     words : {RetryIn, RetryInCapital, RetryAfter},
     seconds : -1..MaxHintSeconds,
     fraction : {<<>>, <<".">>, <<".", "5">>},
     tail : {<<>>, <<"s">>, <<" ", "s">>, <<"s", ".">>}]

\* str(e) for the error built from the parts h.
ErrorText(h) ==
    h.prefix \o h.words
      \o (IF h.seconds < 0 THEN <<>> ELSE ToDigits(h.seconds))
      \o h.fraction \o h.tail

NonWaitOff == IngestOff /\ FoodOff /\ ScoreOff /\ CollectOff /\ EnrichOff /\ OsmOff

\* An upsert of one of the ingestors has raised with the text error_msg.
InitWait ==
    /\ NonWaitOff
    /\ w_variant \in Variants
    /\ hint \in Hints
    /\ error_msg = ErrorText(hint)
    /\ wait_time = 0
    /\ w_pc = "except"

\* The handler computes wait_time.
ComputeWaitTime ==
    /\ w_pc = "except"
    /\ wait_time' = WaitTime(w_variant, error_msg)
    /\ w_pc' = "computed"
    /\ UNCHANGED <<w_variant, hint, error_msg>>
    /\ UNCHANGED nonWaitVars

NextWait == ComputeWaitTime

SpecWait == InitWait /\ [][NextWait]_vars

\* ======================================================================
\* The specifications
\* ======================================================================
\* One invocation of an ingestor on up to MaxDocs documents.
Init == IngestInit(MaxDocs, 1)

\* Up to MaxRuns invocations, one after the other, on the same documents.
InitResume == IngestInit(MaxResumeDocs, MaxRuns)

Next == Invoke \/ ForNext \/ UpsertOk \/ UpsertFail

Spec == Init /\ [][Next]_vars

\* The run is a sequential program: it takes its next step as long as it has
\* one (an upsert call returns or raises, a sleep ends).
SpecTerminating == Init /\ [][Next]_vars /\ WF_vars(Next)

SpecResume == InitResume /\ [][Next]_vars

\* ================================================================= claims
\* ---------------------------------------------------- history, derived

RECURSIVE PickCommitted(_, _)
PickCommitted(fs, ss) ==
    IF fs = <<>> THEN <<>>
    ELSE (IF Head(ss) = "committed" THEN <<Head(fs)>> ELSE <<>>)
             \o PickCommitted(Tail(fs), Tail(ss))

\* The batches whose upsert returned successfully in this run, in order.
CommittedBatches == PickCommitted(formed, status)

Aborted == \E j \in 1..Len(status) : status[j] = "aborted"

\* The run is over and every batch of the work list was committed.
AllCommitted ==
    /\ pc = "done" /\ runs >= 1
    /\ ~Aborted
    /\ ~AlreadyComplete(variant, existing_count, total_docs)

Sizes(ss) == [j \in 1..Len(ss) |-> Len(ss[j])]

NoDuplicates(s) == Cardinality(Range(s)) = Len(s)

\* C1. Resume correctness: whatever the upsert outcomes, every document the
\* run passes to upsert lies in documents[existing_count:], none in
\* documents[:existing_count]; the committed batches are a prefix of
\* documents[existing_count:], and when every batch succeeded in the end their
\* concatenation is exactly documents[existing_count:].
C1_ResumeCorrectness ==
    /\ submitted \subseteq Range(SliceFrom(documents, existing_count))
    /\ \A d \in submitted : d \notin Range(Slice(documents, 0, existing_count))
    /\ Concat(CommittedBatches)
         = Slice(SliceFrom(documents, existing_count), 0, SumLen(CommittedBatches))
    /\ AllCommitted =>
         Concat(CommittedBatches) = SliceFrom(documents, existing_count)

C1_Witness ==
    /\ AllCommitted
    /\ 0 < existing_count /\ existing_count < total_docs
    /\ Len(formed) >= 2
    /\ upsert_calls > Len(formed)
    /\ Concat(CommittedBatches) = SliceFrom(documents, existing_count)

\* C2. Across re-invocations that read existing_count from the store's
\* count, starting from a store that holds a prefix of the documents, the
\* store holds exactly documents[:count] after every step: each document once
\* and in order, nothing skipped, whatever failures and retry exhaustions
\* earlier invocations met.
C2_StoreIsPrefix ==
    (~count_failed /\ initial_count <= total_docs) =>
        /\ Len(store) <= total_docs
        /\ store = Slice(documents, 0, Len(store))
        /\ NoDuplicates(store)

C2_Witness ==
    /\ runs >= 2
    /\ ~count_failed
    /\ initial_count < existing_count /\ existing_count < total_docs
    /\ upsert_calls > Len(formed)
    /\ pc = "done"
    /\ store = documents

C4_BatchPartition ==
    /\ Concat(formed) = Slice(docs_to_process, 0, SumLen(formed))
    /\ \A j \in 1..Len(formed) :
         /\ Len(formed[j]) >= 1 /\ Len(formed[j]) <= batch_size
         /\ j < Len(formed) => Len(formed[j]) = batch_size
         /\ Len(formed[j]) < batch_size => SumLen(formed) = Len(docs_to_process)
    /\ AllCommitted =>
         /\ Concat(formed) = docs_to_process
         /\ NoDuplicates(Concat(formed))
         /\ Len(formed) * batch_size >= Len(docs_to_process)
         /\ (Len(formed) - 1) * batch_size < Len(docs_to_process)
    /\ (AllCommitted /\ total_docs = 12 /\ batch_size = 5 /\ existing_count = 0) =>
         /\ Sizes(formed) = <<5, 5, 2>>
         /\ Len(store) = Len(start_store) + 12
         /\ variant = "qdrant" => ret = IntVal(12)

C4_Witness ==
    /\ AllCommitted
    /\ variant = "qdrant"
    /\ total_docs = 12 /\ batch_size = 5 /\ existing_count = 0
    /\ Sizes(formed) = <<5, 5, 2>>
    /\ ret = IntVal(12)

\* C5. Already-complete no-op: a run that finds existing_count >= total is
\* over at once, has made no upsert call and no sleep, has left the store
\* unchanged, and import_to_qdrant_with_langchain has returned the success
\* count 0.
C5_AlreadyCompleteReturnsZero ==
    (runs >= 1 /\ existing_count >= total_docs) =>
        /\ pc # "try"
        /\ formed = <<>>
        /\ upsert_calls = 0
        /\ sleeps = 0
        /\ store = start_store
        /\ (variant = "qdrant" /\ pc = "done") => ret = IntVal(0)

\* C6. Strict batch order: every batch formed before the current one was
\* committed, so at most the last formed batch is not yet in a terminal
\* state; upsert is only ever called with the last formed batch; a batch
\* given up is the last one of the run.
C6_StrictOrder ==
    /\ \A j \in 1..(Len(status) - 1) : status[j] = "committed"
    /\ Len(status) = Len(formed)
    /\ pc = "try" =>
         /\ formed # <<>>
         /\ batch = formed[Len(formed)]
         /\ status[Len(status)] = "pending"
    /\ pc = "for" => \A j \in 1..Len(status) : status[j] = "committed"
    /\ submitted \subseteq Range(Concat(formed))
    /\ Aborted => pc = "done" /\ status[Len(status)] = "aborted"

C6_Witness ==
    /\ Aborted
    /\ Len(formed) >= 3
    /\ SumLen(formed) < Len(docs_to_process)

\* C7 as stated: in a run that ends with every batch committed, no batch's
\* content was passed to upsert more than once.
C7_PassedAtMostOnce == AllCommitted => max_passes <= 1

\* C7, amended: in a run that ends with every batch committed, each batch's
\* content was committed exactly once, and was passed to upsert once plus
\* once for each failed attempt on it, at most MAX_RETRIES times; no batch
\* was passed twice when no upsert failed.
C7_CommittedOnce ==
    /\ max_passes <= 3
    /\ passes <= max_passes
    /\ pc = "try" => passes = retry_count
    /\ (pc = "for" /\ formed # <<>>) => passes = retry_count + 1
    /\ NoDuplicates(Concat(CommittedBatches))
    /\ AllCommitted =>
         /\ CommittedBatches = formed
         /\ Len(store) = Len(start_store) + Len(docs_to_process)
         /\ upsert_calls = Len(formed) => max_passes <= 1

C7_Witness ==
    /\ AllCommitted
    /\ Len(formed) >= 2
    /\ max_passes = 3
    /\ upsert_calls = Len(formed) + 2

\* C8. No partial batch is marked complete (import_to_qdrant_with_langchain):
\* success_count is always the total size of the batches whose upsert
\* returned successfully, which is what the store gained in the run; the
\* value returned after the loop or after a batch was given up is that
\* count, to which the batch given up contributes nothing.
C8_SuccessCountWholeBatches ==
    variant = "qdrant" =>
        /\ success_count = SumLen(CommittedBatches)
        /\ success_count = Len(store) - Len(start_store)
        /\ (pc = "done" /\ (Aborted \/ AllCommitted)) =>
             ret = IntVal(SumLen(CommittedBatches))
        /\ (pc = "try" /\ Len(batch) < batch_size) =>
             success_count = Len(docs_to_process) - Len(batch)

C8_Witness ==
    /\ variant = "qdrant"
    /\ Aborted
    /\ Len(batch) < batch_size
    /\ ret.val > 0
    /\ ret.val = SumLen(formed) - Len(batch)

\* ------------------------------------------------ the aggregation engine

SameName(r, q) == NameNormalized(r) = NameNormalized(q)

\* No two records of the list share a normalized name or a URL.
KeysUnique(rs) ==
    \A j, k \in 1..Len(rs) :
        j # k => ~SameName(rs[j], rs[k]) /\ rs[j].url # rs[k].url

\* C9. Dedup keys are unique in the list get_food_recommendations returns:
\* whatever the providers returned and whatever the detail crawl found, no
\* two returned records have the same lower-cased trimmed name and no two
\* have the same URL.
C9_ReturnedKeysUnique ==
    food_pc = "returned" => KeysUnique(recommendations)

\* The position of the first record of rs that satisfies P, 0 when none does.
FirstWith(rs, P(_)) ==
    IF \E j \in 1..Len(rs) : P(rs[j])
      THEN CHOOSE j \in 1..Len(rs) : P(rs[j]) /\ \A k \in 1..(j - 1) : ~P(rs[k])
      ELSE 0

\* C10 as stated: for every key of the input, a normalized name or a URL,
\* exactly one record with that key is in the output, and it is the first
\* record of the input with that key.
C10_FirstSeenSurvivor ==
    dedup_pc = "returned" =>
        \A j \in 1..Len(restaurants) :
            LET r == restaurants[j]
                HasName(q) == SameName(q, r)
                HasUrl(q) == q.url = r.url
            IN  /\ Cardinality({k \in 1..Len(unique) : HasName(unique[k])}) = 1
                /\ unique[FirstWith(unique, HasName)].rid = FirstWith(restaurants, HasName)
                /\ Cardinality({k \in 1..Len(unique) : HasUrl(unique[k])}) = 1
                /\ unique[FirstWith(unique, HasUrl)].rid = FirstWith(restaurants, HasUrl)

\* C10, amended: the output holds at most one record for a normalized name
\* and at most one for a URL; a record of the input is kept exactly when no
\* record kept before it has its normalized name or its URL, so every
\* record dropped shares a key with a record kept before it and the first
\* record is always kept; the survivor for a key is the first record with
\* that key that was not dropped for its other key.  A record named
\* 'Ho Guom Cafe' followed by one named 'ho guom cafe' with the same URL
\* yields only the first.
C10_FirstKeptSurvivor ==
    dedup_pc = "returned" =>
        LET n == Len(restaurants)
            key == [j \in 1..n |-> NameNormalized(restaurants[j])]
            kept == {j \in 1..n : restaurants[j] \in Range(unique)}
            SameKey(j, k) == key[j] = key[k]
            SameUrl(j, k) == restaurants[j].url = restaurants[k].url
        IN  /\ KeysUnique(unique)
            /\ Range(unique) \subseteq Range(restaurants)
            /\ Len(unique) = Cardinality(kept)
            /\ \A j \in 1..n :
                 j \in kept <=>
                     ~\E k \in kept : k < j /\ (SameKey(j, k) \/ SameUrl(j, k))
            /\ n > 0 => 1 \in kept
            /\ \A j \in kept : \A k \in 1..(j - 1) :
                 /\ SameKey(j, k) => \E h \in kept : h < k /\ SameUrl(h, k)
                 /\ SameUrl(j, k) => \E h \in kept : h < k /\ SameKey(h, k)
            /\ ( /\ n = 2
                 /\ restaurants[1].name = HoGuomCafe /\ restaurants[1].url = "a"
                 /\ restaurants[2].name = hoguomcafe /\ restaurants[2].url = "a" )
               => unique = <<restaurants[1]>>

\* A record dropped for its URL, and a later record of the same name kept.
C10_Witness ==
    /\ dedup_pc = "returned"
    /\ Len(restaurants) = 3
    /\ restaurants[1].url = restaurants[2].url
    /\ SameName(restaurants[2], restaurants[3])
    /\ restaurants[2].name # restaurants[3].name
    /\ Range(unique) = {restaurants[1], restaurants[3]}

\* C11: _deduplicate_and_rank is idempotent: called on the list it returned,
\* it returns the same records in the same order.
C11_DedupIdempotent ==
    dedup_pc = "again" => unique_again = unique

\* A duplicate was dropped, and two records with the same score survived.
C11_Witness ==
    /\ dedup_pc = "again"
    /\ Len(restaurants) = 3
    /\ Len(unique) = 2
    /\ ScoreEQ(unique[1].score, unique[2].score)
    /\ unique_again = unique

\* C12: the list _deduplicate_and_rank returns is in non-increasing order of
\* score, and records with the same score are in the order of the input.
C12_SortedAndStable ==
    dedup_pc # "call" =>
        \A j, k \in 1..Len(unique) :
            j < k =>
                /\ ScoreGE(unique[j].score, unique[k].score)
                /\ ScoreEQ(unique[j].score, unique[k].score)
                       => unique[j].rid < unique[k].rid

\* The sort moved a record ahead of one that came before it in the input.
C12_Witness ==
    /\ dedup_pc = "returned"
    /\ Len(unique) = 2
    /\ unique[1].rid > unique[2].rid
    /\ ~ScoreGE(unique[2].score, unique[1].score)

\* C13: the list get_food_recommendations returns is in non-increasing order
\* of the records' score, whatever the detail crawl did to the records.
C13_ReturnedSortedByScore ==
    food_pc = "returned" =>
        \A j, k \in 1..Len(recommendations) :
            j < k => ScoreGE(recommendations[j].score, recommendations[k].score)

\* The records provider t's fetch handed over: none when it raised.
ProviderRecords(t) == IF outcome[t].is_list THEN outcome[t].list ELSE <<>>

\* C14: once both fetches have completed (and before the detail crawl, which
\* leaves the merged list alone) the call goes on without raising
\* and the merged list is the records of the first provider followed by the
\* records of the second, a provider that raised contributing none; the
\* merged list is empty only when no provider returned a record.
C14_PartialResultsMerged ==
    food_pc \notin {"off", "fetch"} /\ crawled = {} =>
        /\ food_pc # "raised"
        /\ all_restaurants = Tagged(ProviderRecords(1) \o ProviderRecords(2))
        /\ \A t \in 1..2 : \A j \in 1..Len(ProviderRecords(t)) :
              \E k \in 1..Len(all_restaurants) :
                  [all_restaurants[k] EXCEPT !.rid = 0] = ProviderRecords(t)[j]
        /\ all_restaurants = <<>>
              <=> \A t \in 1..2 : ~outcome[t].is_list \/ outcome[t].list = <<>>

\* One fetch raised, the other returned records, and the call returned them.
C14_Witness ==
    /\ food_pc = "returned"
    /\ outcome[1] = Raised
    /\ outcome[2].is_list
    /\ Len(outcome[2].list) = 1
    /\ Len(all_restaurants) = 1
    /\ Len(recommendations) = 1

\* C15: the deduplicated, ranked list is determined by what each provider
\* returned: it is the same whichever fetch completed first (stated where the
\* ranking has just run; the detail crawl does not assign the list).
C15_OrderOfCompletionIrrelevant ==
    food_pc \notin {"off", "fetch"} /\ crawled = {} =>
        unique_restaurants
            = DeduplicateAndRank(Tagged(ProviderRecords(1) \o ProviderRecords(2)))

\* The second provider completed first, and one of its records is a
\* duplicate of a record of the first provider, which is the one kept.
C15_Witness ==
    /\ food_pc = "enrich"
    /\ completed = <<2, 1>>
    /\ Len(ProviderRecords(1)) = 1
    /\ Len(ProviderRecords(2)) = 1
    /\ Len(unique_restaurants) = 1
    /\ unique_restaurants[1].source = "foody"

C17_DefaultScore ==
    score_pc = "returned" /\ score_rating = NoRating =>
        score_result = Frac(50, 1)

\* _calculate_score was called with no rating and a positive review count.
C17_Witness ==
    /\ score_pc = "returned"
    /\ score_call = "_calculate_score"
    /\ arg_rating = NoRating
    /\ arg_review_count = MaxReviews
    /\ score_result = Frac(50, 1)

\* The remote call of the collector failed entirely: a timeout, a transport
\* error or a status other than 2xx, of the search request for the three
\* collectors that start with it, of the page request for the listing crawl.
RemoteCallFailed ==
    IF collector = "_crawl_foody_listing"
      THEN listing_resp.kind # "ok"
      ELSE search_resp.kind # "ok"

\* C18: a collector whose remote call failed entirely returns the empty list
\* and raises nothing.
C18_FailedCollectorReturnsEmpty ==
    collect_pc = "returned" /\ RemoteCallFailed => collected = Fetched(<<>>)

\* The entities of the call all have a name.
AllNamed == \A j \in 1..Len(pois) : pois[j].named

\* Every lookup issued for the entity failed or found nothing.
NothingYielded(log) == \A k \in 1..Len(log) : ~log[k].yielded

\* C19: whatever stages fail, a call on entities that have a name does not
\* raise, every entity built so far is the input entity of its position,
\* and it carries the payload: for the crawler a failed article search
\* leaves no article, failed tips leave the category's tips, failed food
\* recommendations leave an empty list; for the encyclopedia lookups that
\* all failed or found nothing leave the empty dict.  The returned list has
\* one entity for each input entity, in the order of the input.
C19_StageFailuresIsolated ==
    AllNamed =>
        /\ e_pc # "raised"
        /\ Len(enriched) <= Len(pois)
        /\ \A j \in 1..Len(enriched) :
              /\ enriched[j].id = pois[j].id
              /\ enricher = "web" =>
                    /\ "articles" \in enriched[j].failed
                          => enriched[j].payload.articles = <<>>
                    /\ enriched[j].payload.articles = <<>>
                         \/ "tips" \in enriched[j].failed
                          => enriched[j].payload.tips = GenerateCategoryTips(pois[j])
                    /\ "food" \in enriched[j].failed \/ ~food_service
                          => enriched[j].payload.food_recommendations = <<>>
              /\ enricher = "wiki" =>
                    (NothingYielded(enriched[j].issued)
                        <=> enriched[j].payload = NoData)
        /\ e_pc = "returned" =>
              /\ enrich_ret = enriched
              /\ Len(enrich_ret) = Len(pois)

\* The crawler returned two entities: every stage of the first failed, no
\* stage of the second did.
C19_Witness ==
    /\ e_pc = "returned"
    /\ enricher = "web"
    /\ Len(enrich_ret) = 2
    /\ enrich_ret[1].failed = {"articles", "food"}
    /\ enrich_ret[1].payload = [articles |-> <<>>, tips |-> <<"museum tip">>,
                                food_recommendations |-> <<>>]
    /\ enrich_ret[2].failed = {}
    /\ enrich_ret[2].payload.tips = <<"t">>
    /\ enrich_ret[2].payload.food_recommendations = <<"r">>

\* The rank of a lookup in the source order.
StepRank(step) == CASE step = "link" -> 1 [] step = "vi" -> 2 [] OTHER -> 3

\* C20: the lookups issued for an entity follow the source order, a lookup
\* is issued only when every lookup before it yielded no data, and the
\* English search is issued only for an entity with an English name and
\* right after the Vietnamese search.
C20_SourceOrder ==
    \A k \in 1..Len(issued) :
        /\ \A h \in 1..(k - 1) :
              /\ ~issued[h].yielded
              /\ StepRank(issued[h].step) < StepRank(issued[k].step)
        /\ issued[k].step = "en" =>
              /\ pois[e_i].name_en
              /\ k > 1
              /\ issued[k - 1].step = "vi"

\* The link and the Vietnamese search yielded nothing, the English search
\* yielded the data.
C20_Witness ==
    /\ e_pc = "store"
    /\ Len(issued) = 3
    /\ issued[1].step = "link"
    /\ issued[2].step = "vi"
    /\ issued[3].step = "en"
    /\ issued[3].yielded
    /\ wiki_data = {<<"title", "T">>, <<"language", "en">>}

\* The positions of enrich_batch at which a request is issued on the session.
RequestPositions ==
    {"articles", "tips", "food", "link", "name_search", "english_search"}

\* C21: when enrich_batch has exited, by return or by an exception raised
\* for any entity, the session it opened is closed; a closed session means
\* the call has exited, and wherever a request is issued the session is
\* open.
C21_SessionReleased ==
    /\ e_pc \in {"returned", "raised"} => session = "closed"
    /\ session = "closed" => e_pc \in {"returned", "raised"}
    /\ e_pc \in RequestPositions => session = "open"

\* The first entity was enriched, the second raised: the call has exited
\* with the session closed.
C21_Witness ==
    /\ e_pc = "raised"
    /\ e_i = 2
    /\ Len(enriched) = 1
    /\ session = "closed"

\* C22: the requests of a _query_overpass call go to the servers in list
\* order, each one but the last has failed; when the call has returned, the
\* last request succeeded and its body is returned, or every server was
\* contacted, all failed, and the empty dict is returned; the call never raises.
C22_FallbackOrder ==
    entry = "collect_pois" =>
        /\ Len(contacted) <= Len(OVERPASS_SERVERS)
        /\ \A k \in 1..Len(contacted) :
              /\ contacted[k].server = OVERPASS_SERVERS[k]
              /\ k < Len(contacted) => contacted[k].kind # "ok"
        /\ o_pc = "server" => \A k \in 1..Len(contacted) : contacted[k].kind # "ok"
        /\ HasBounds(city) => o_pc # "raised"
        /\ o_pc = "fetched" =>
              /\ Len(contacted) >= 1
              /\ \/ /\ contacted[Len(contacted)].kind = "ok"
                    /\ overpass_data = contacted[Len(contacted)].body
                 \/ /\ Len(contacted) = Len(OVERPASS_SERVERS)
                    /\ contacted[Len(contacted)].kind # "ok"
                    /\ overpass_data = NoResult

\* The first server answered with a status other than 200, the second
\* raised, the third returned the elements.
C22_Witness ==
    /\ o_pc = "fetched"
    /\ Len(contacted) = 3
    /\ contacted[1].kind = "non_200"
    /\ contacted[2].kind = "exception"
    /\ contacted[3].kind = "ok"
    /\ overpass_data = Elements(<<1, 2>>)

\* Every server failed and the call returned the empty dict.
C22_AllFailedWitness ==
    /\ o_pc = "fetched"
    /\ Len(contacted) = 3
    /\ \A k \in 1..3 : contacted[k].kind # "ok"
    /\ overpass_data = NoResult

\* C23: collect_pois for a city without bounds raises with no request
\* issued, and initialize_qdrant_client without its URL or its API key raises
\* with no client created and no request issued.
C23_ConfigErrorsBeforeNetwork ==
    /\ (entry = "collect_pois" /\ ~HasBounds(city)) =>
          /\ o_pc \in {"call", "raised"}
          /\ contacted = <<>>
    /\ (entry = "initialize_qdrant_client"
          /\ (qdrant_url = "" \/ qdrant_api_key = "")) =>
          /\ o_pc \in {"call", "raised"}
          /\ clients = 0
          /\ contacted = <<>>

\* The URL is set and the API key is missing: the call has raised.
C23_Witness ==
    /\ entry = "initialize_qdrant_client"
    /\ qdrant_url # ""
    /\ qdrant_api_key = ""
    /\ o_pc = "raised"
    /\ clients = 0
    /\ contacted = <<>>

\* The step is an upsert call of the run.
UpsertCalled == upsert_calls' = upsert_calls + 1

\* C24: an upsert call that follows a failed one passes the same batch again,
\* with no batch formed in between and within the same run; the counter is 0
\* when a batch is formed and, while a batch is tried, counts the failed
\* calls made with that batch only, so that every batch has all its attempts.
C24_RetriesLocalToBatch ==
    /\ [](pc = "try" => /\ retry_count = passes
                        /\ retry_count < MaxRetries(variant))
    /\ [][/\ (UpsertCalled /\ last_call.outcome \in ExceptionKinds) =>
                /\ last_call'.batch = last_call.batch
                /\ last_call'.batch = formed[Len(formed)]
                /\ formed' = formed
                /\ runs' = runs
          /\ Len(formed') > Len(formed) => retry_count' = 0]_vars

\* The first batch failed twice before it was committed, and the second
\* batch is at its third call.
C24_Witness ==
    /\ Len(formed) = 2
    /\ status[1] = "committed"
    /\ upsert_calls = 5
    /\ passes = 2
    /\ retry_count = 2
    /\ pc = "try"
    /\ last_call = Call(formed[2], "ConnectionError")

\* The error text was built with a well-formed hint: the words "retry in ",
\* a number with an integer part, and an "s" right after it.
WellFormedHint(h) ==
    /\ h.words = RetryIn
    /\ h.seconds >= 0
    /\ h.tail # <<>>
    /\ h.tail[1] = "s"

\* The number of the hint, in tenths of a second.
HintTenths(h) == 10 * h.seconds + (IF Len(h.fraction) = 2 THEN 5 ELSE 0)

\* C25: the wait computed after a failed upsert is the number of seconds of
\* the hint plus 5 when the error text holds a well-formed hint, and the
\* ingestor's default otherwise: 10 s for Qdrant, 65 s for Chroma.
C25_BackoffWait ==
    w_pc = "computed" =>
        wait_time = IF WellFormedHint(hint) THEN HintTenths(hint) + 50
                    ELSE IF w_variant = "qdrant" THEN 100 ELSE 650

\* "429 quota, retry in 7.5s.": the wait is 12.5 s.
C25_Witness ==
    /\ w_pc = "computed"
    /\ error_msg = QuotaExceeded \o RetryIn \o <<"7", ".", "5", "s", ".">>
    /\ wait_time = 125

\* "retry in 12 s" has no well-formed hint: the Qdrant ingestor waits 10 s.
C25_DefaultWitness ==
    /\ w_pc = "computed"
    /\ w_variant = "qdrant"
    /\ error_msg = RetryIn \o <<"1", "2", " ", "s">>
    /\ wait_time = 100

\* C26: an upsert that raised, whatever the exception, has been counted
\* against the attempts of its batch, and the run has either kept the batch
\* for a retry or stopped on it with its ordinary ending; no exception
\* leaves the run.
C26_EveryExceptionCaught ==
    /\ [](pc # "raised")
    /\ [][(UpsertCalled /\ last_call'.outcome \in ExceptionKinds) =>
             /\ retry_count' = retry_count + 1
             /\ retry_count' <= MaxRetries(variant)
             /\ \/ pc' = "try" /\ retry_count' < MaxRetries(variant)
                \/ /\ pc' = "done"
                   /\ retry_count' = MaxRetries(variant)
                   /\ status'[Len(status')] = "aborted"]_vars

\* A connection error, which is no rate-limit error, was caught twice on the
\* first batch and the batch is kept for its last attempt.
C26_Witness ==
    /\ pc = "try"
    /\ Len(formed) = 1
    /\ retry_count = 2
    /\ last_call = Call(formed[1], "ConnectionError")
    /\ upsert_calls = 2

\* The step is an upsert call that follows another one of the run.
NextUpsertCalled == UpsertCalled /\ last_call # NoCall

\* C27: whenever an upsert call follows another one of the run, time.sleep
\* was called in between.
C27_SleepBetweenUpserts == [][NextUpsertCalled => slept]_vars

\* A second batch is tried after the first one was committed and the
\* inter-batch delay was slept; a retry after a failure and its backoff wait.
C27_Witness ==
    /\ pc = "try"
    /\ Len(formed) = 2
    /\ last_call = Call(formed[2], "ResourceExhausted")
    /\ status[1] = "committed"
    /\ slept
    /\ sleeps = 2
    /\ upsert_calls = 2

\* The documents the store lacks when the run starts.
Remaining == Max(total_docs - existing_count, 0)

\* ceil(a / b) for a >= 0, b > 0.
CeilDiv(a, b) == (a + b - 1) \div b

\* The most upsert calls a run may make.
CallBound == MaxRetries(variant) * CeilDiv(Remaining, batch_size)

\* C28: the run ends, and at no moment has it made more than
\* max_attempts * ceil((total - existing_count) / B) upsert calls.
C28_Terminates ==
    /\ [](pc # "idle" => upsert_calls <= CallBound)
    /\ <>(pc = "done")

\* A run of three batches that stopped on its last batch with every attempt
\* of every batch used but the committing ones: the bound less two.
C28_Witness ==
    /\ pc = "done"
    /\ Len(formed) = 3
    /\ status = <<"committed", "committed", "aborted">>
    /\ upsert_calls = 9
    /\ CallBound = 9

\* The score a lies between the scores x and y, inclusive.
ScoreBetween(a, x, y) ==
    \/ ScoreGE(a, x) /\ ScoreGE(y, a)
    \/ ScoreGE(a, y) /\ ScoreGE(x, a)

C29_NoReviewWitness ==
    /\ score_pc = "returned"
    /\ score_call = "_calculate_score"
    /\ arg_rating = <<100>>
    /\ arg_review_count = 0
    /\ ScoreEQ(score_result, Frac(70, 1))

\* C30: a Chroma run whose read of the store's count failed has taken
\* existing_count as 0 and the whole document list as its work list, its
\* first batch starts with the first document whatever the store held, and
\* the run goes on to its loop and its ordinary ending.
C30_CountFailureStartsAtZero ==
    (pc # "idle" /\ count_failed) =>
        /\ variant = "chroma"
        /\ existing_count = 0
        /\ docs_to_process = documents
        /\ formed # <<>> => formed[1] = BatchAt(documents, 0, batch_size)
        /\ pc \in {"for", "try", "done"}
        /\ (pc = "done" /\ documents # <<>>) => formed # <<>>

\* The store held two documents, the read of its count failed, and the run
\* has submitted the first batch again, from the first document.
C30_Witness ==
    /\ count_failed
    /\ start_store = <<1, 2>>
    /\ Len(documents) = 3
    /\ batch_size = 2
    /\ formed = <<<<1, 2>>>>
    /\ store = <<1, 2, 1, 2>>
    /\ pc = "for"
====
